---- MODULE Spec2Model ----
(***************************************************************************)
(* Digital Monk trading system: the lock-guarded MarketDataBridge, the     *)
(* feed callbacks that write it, the ZenMaster state machine that polls    *)
(* it, and the command server that calls into the ZenMaster.               *)
(*                                                                         *)
(* Python values are modelled as follows.                                  *)
(*   - a value that may be None is a sequence: <<v>> for v, << >> for None *)
(*   - a dict with text keys whose order matters (the level maps) is a     *)
(*     sequence of <<key, value>> pairs in insertion order                 *)
(*   - a trade dict is a function whose DOMAIN is the keys it holds        *)
(*   - float(s) is the table FloatOf; a string outside its domain makes    *)
(*     float raise ValueError, None makes it raise TypeError               *)
(*   - an operation that can raise returns the exception's name in the     *)
(*     field raised ("" when it returns normally)                          *)
(***************************************************************************)
EXTENDS Integers, Sequences, FiniteSets, TLC

VARIABLES
    bridge,     \* the MarketDataBridge instance: its five data fields
    feed,       \* the data-engine thread: where it is inside a callback, and the callback's locals
    zen,        \* the ZenMaster instance: state, position and ledger fields
    poll,       \* the main thread: where it is inside meditate(), and its locals
    cmd,        \* the command-server thread: where it is inside handle_command(), and its locals
    exc,        \* name of the exception the most recent call raised, "" if it returned
    call,       \* history: the most recent bridge call, its argument, and a bit flipped by every call
    ingested    \* history: every trade ever handed to add_trade, oldest first

vars == <<bridge, feed, zen, poll, cmd, exc, call, ingested>>
threads == <<feed, zen, poll, cmd>>

(***************************************************************************)
(* Bounds of the model.                                                    *)
(***************************************************************************)
MaxTapeCalls == 2      \* add_trade calls explored with arbitrary trade dicts
MaxTime == 2           \* trade timestamps 0..MaxTime
MaxIngest == 103       \* trades pushed through the window in SpecWindow
MaxFeedEvents == 2     \* events the feed delivers after the ZenMaster is constructed
MaxCommands == 2       \* commands the command server receives
MaxTrades == 1         \* positions closed before the main loop is no longer followed

(***************************************************************************)
(* Program constants.                                                      *)
(***************************************************************************)
WindowMaxLen == 100    \* deque(maxlen=100)

(***************************************************************************)
(* float(): the strings the model feeds in and what they parse to.         *)
(***************************************************************************)
FloatOf ==
    ("0" :> 0) @@ ("0.00" :> 0) @@ ("1" :> 1) @@ ("2" :> 2) @@ ("5" :> 5) @@
    ("9" :> 9) @@ ("10" :> 10) @@ ("-1" :> (0 - 1)) @@ ("-5" :> (0 - 5)) @@
    ("98" :> 98) @@ ("99" :> 99) @@ ("100" :> 100) @@ ("101" :> 101) @@
    ("106" :> 106) @@ ("1000" :> 1000) @@ ("50" :> 50)

IsNumeric(s) == s \in DOMAIN FloatOf

\* float(v) for an optional string v: [raised, value]
float(v) ==
    IF v = << >> THEN [raised |-> "TypeError", value |-> 0]
    ELSE IF ~IsNumeric(v[1]) THEN [raised |-> "ValueError", value |-> 0]
    ELSE [raised |-> "", value |-> FloatOf[v[1]]]

Some(v) == <<v>>
None == << >>

(***************************************************************************)
(* MarketDataBridge                                                        *)
(***************************************************************************)
BridgeInit ==
    [current_price |-> 0, last_trade_time |-> 0, recent_trades |-> << >>,
     bids |-> << >>, asks |-> << >>, locked |-> FALSE]

\* mutant: the deque has no maxlen
DequeAppendUnbounded(dq, item) == Append(dq, item)

\* deque(maxlen=100).append: the oldest entry is dropped once the deque is full
DequeAppend(dq, item) ==
    IF Len(dq) >= WindowMaxLen THEN Append(Tail(dq), item) ELSE Append(dq, item)

\* trade.get(key, default) for a key whose default is an optional value
TradeGet(trade, key, default) ==
    IF key \in DOMAIN trade THEN trade[key] ELSE default

\* mutant: a trade stamped exactly like the stored one counts as newer
TimeIsNewerOrSame(t, last) == t >= last

\* the comparison of add_trade: is the incoming trade newer than the stored one
TimeIsNewer(t, last) == t > last

\* add_trade under the lock: the bridge afterwards, and what was raised
add_trade(b, trade) ==
    LET appended == [b EXCEPT !.recent_trades = DequeAppend(@, trade)]
        t == TradeGet(trade, "time", Some(0))
    IN  IF t = None
        THEN [bridge |-> appended, raised |-> "TypeError"]
        ELSE IF ~TimeIsNewer(t[1], b.last_trade_time)
        THEN [bridge |-> appended, raised |-> ""]
        ELSE LET p == IF "price" \in DOMAIN trade
                      THEN float(trade["price"])
                      ELSE [raised |-> "", value |-> b.current_price]
             IN  IF p.raised # ""
                 THEN [bridge |-> appended, raised |-> p.raised]
                 ELSE [bridge |-> [appended EXCEPT !.current_price = p.value,
                                                   !.last_trade_time = t[1]],
                       raised |-> ""]

\* the current_price and last_trade_time setters
set_current_price(b, value) == [b EXCEPT !.current_price = value]
set_last_trade_time(b, value) == [b EXCEPT !.last_trade_time = value]

(***************************************************************************)
(* dict operations on a level map kept as <<price, quantity>> pairs in     *)
(* insertion order                                                         *)
(***************************************************************************)
DictKeys(d) == {d[i][1] : i \in 1..Len(d)}
DictGet(d, k) == d[CHOOSE i \in 1..Len(d) : d[i][1] = k][2]
\* d[k] = v: an existing key keeps its place, a new key goes last
DictSet(d, k, v) ==
    IF k \in DictKeys(d)
    THEN [i \in 1..Len(d) |-> IF d[i][1] = k THEN <<k, v>> ELSE d[i]]
    ELSE Append(d, <<k, v>>)
\* d.pop(k, None)
DictPop(d, k) == SelectSeq(d, LAMBDA e : e[1] # k)

\* mutant: the quantity's text is compared, not its value
QuantityIsZeroText(q) == q = "0"

\* the test of update_bids / update_asks: does this quantity delete the level
QuantityIsZero(q) == FloatOf[q] = 0

\* the loop body of update_bids / update_asks for one (price, quantity) item
MergeLevel(book, price, quantity) ==
    IF QuantityIsZero(quantity) THEN DictPop(book, price)
    ELSE DictSet(book, price, quantity)

\* the loop of update_bids / update_asks from item i on: float(quantity)
\* raises at the first quantity that is no number, and the items before it stay merged
RECURSIVE MergeLevels(_, _, _)
MergeLevels(book, levels, i) ==
    IF i > Len(levels) THEN [book |-> book, raised |-> ""]
    ELSE IF ~IsNumeric(levels[i][2]) THEN [book |-> book, raised |-> "ValueError"]
    ELSE MergeLevels(MergeLevel(book, levels[i][1], levels[i][2]), levels, i + 1)

update_bids(b, levels) ==
    LET r == MergeLevels(b.bids, levels, 1)
    IN  [bridge |-> [b EXCEPT !.bids = r.book], raised |-> r.raised]

update_asks(b, levels) ==
    LET r == MergeLevels(b.asks, levels, 1)
    IN  [bridge |-> [b EXCEPT !.asks = r.book], raised |-> r.raised]

\* mutant: the levels passed in are added to the ones held
update_order_book_keeping(b, new_bids, new_asks) ==
    [b EXCEPT !.bids = @ \o new_bids, !.asks = @ \o new_asks]

\* update_order_book: both maps are replaced by the dicts passed in
update_order_book(b, new_bids, new_asks) ==
    [b EXCEPT !.bids = new_bids, !.asks = new_asks]

(***************************************************************************)
(* Arithmetic: a Python float is modelled as an exact rational <<n, d>>    *)
(* in lowest terms with d > 0 (no rounding).                               *)
(***************************************************************************)
Abs(x) == IF x < 0 THEN 0 - x ELSE x

RECURSIVE GCD(_, _)
GCD(a, b) == IF b = 0 THEN a ELSE GCD(b, a % b)

Rat(n, d) ==
    LET g == GCD(Abs(n), Abs(d))
        sgn == IF d < 0 THEN 0 - 1 ELSE 1
    IN  <<(sgn * n) \div g, (sgn * d) \div g>>

RInt(i) == <<i, 1>>
RAdd(x, y) == Rat(x[1] * y[2] + y[1] * x[2], x[2] * y[2])
RSub(x, y) == Rat(x[1] * y[2] - y[1] * x[2], x[2] * y[2])
RMul(x, y) == Rat(x[1] * y[1], x[2] * y[2])
\* x / y for y # 0
RDiv(x, y) == Rat(x[1] * y[2], x[2] * y[1])
RLt(x, y) == x[1] * y[2] < y[1] * x[2]
\* mutant: the comparison excludes equality
RLeStrict(x, y) == x[1] * y[2] < y[1] * x[2]
RLe(x, y) == x[1] * y[2] <= y[1] * x[2]
RIsZero(x) == x[1] = 0

RECURSIVE SumSeq(_)
SumSeq(xs) == IF xs = << >> THEN 0 ELSE Head(xs) + SumSeq(Tail(xs))

\* sorted(xs): ascending, equal elements keep their order
RECURSIVE InsertSorted(_, _)
InsertSorted(sorted, x) ==
    IF sorted = << >> THEN <<x>>
    ELSE IF x < Head(sorted) THEN <<x>> \o sorted
    ELSE <<Head(sorted)>> \o InsertSorted(Tail(sorted), x)

RECURSIVE Sorted(_)
Sorted(xs) ==
    IF xs = << >> THEN << >>
    ELSE InsertSorted(Sorted(SubSeq(xs, 1, Len(xs) - 1)), xs[Len(xs)])

\* xs[-n:] and xs[:n]
LastN(xs, n) == IF Len(xs) <= n THEN xs ELSE SubSeq(xs, Len(xs) - n + 1, Len(xs))
FirstN(xs, n) == IF Len(xs) <= n THEN xs ELSE SubSeq(xs, 1, n)

(***************************************************************************)
(* get_top_n_levels: both maps sorted on float(price), stably, bids with   *)
(* reverse=True, and cut to n items.                                       *)
(***************************************************************************)
\* insert item into levels sorted ascending on float(price), after its equals
RECURSIVE InsertLevelAsc(_, _)
InsertLevelAsc(sorted, item) ==
    IF sorted = << >> THEN <<item>>
    ELSE IF FloatOf[item[1]] < FloatOf[Head(sorted)[1]] THEN <<item>> \o sorted
    ELSE <<Head(sorted)>> \o InsertLevelAsc(Tail(sorted), item)

\* mutant: the bids keep the order in which the dict holds them
InsertLevelUnsorted(sorted, item) == Append(sorted, item)

\* insert item into levels sorted descending on float(price), after its equals
RECURSIVE InsertLevelDesc(_, _)
InsertLevelDesc(sorted, item) ==
    IF sorted = << >> THEN <<item>>
    ELSE IF FloatOf[item[1]] > FloatOf[Head(sorted)[1]] THEN <<item>> \o sorted
    ELSE <<Head(sorted)>> \o InsertLevelDesc(Tail(sorted), item)

RECURSIVE SortLevels(_, _)
SortLevels(levels, reverse) ==
    IF levels = << >> THEN << >>
    ELSE LET rest == SortLevels(SubSeq(levels, 1, Len(levels) - 1), reverse)
             item == levels[Len(levels)]
         IN  IF reverse THEN InsertLevelDesc(rest, item) ELSE InsertLevelAsc(rest, item)

get_top_n_levels(b, n) ==
    IF \E k \in DictKeys(b.bids) \cup DictKeys(b.asks) : ~IsNumeric(k)
    THEN [raised |-> "ValueError", bids |-> << >>, asks |-> << >>]
    ELSE [raised |-> "",
          bids |-> FirstN(SortLevels(b.bids, TRUE), n),
          asks |-> FirstN(SortLevels(b.asks, FALSE), n)]

(***************************************************************************)
(* OrderBookManager: each query takes one get_top_n_levels snapshot.       *)
(* A query returns [raised, value].                                        *)
(***************************************************************************)
Returned(v) == [raised |-> "", value |-> v]
Raised(e) == [raised |-> e, value |-> FALSE]

\* [float(qty) for qty in levels.values()], for levels whose quantities are numbers
LevelQuantityValues(levels) == [i \in 1..Len(levels) |-> FloatOf[levels[i][2]]]

\* the exception float(qty) raises over the values of a level dict, "" if none
LevelQuantityError(levels) ==
    IF \E i \in 1..Len(levels) : ~IsNumeric(levels[i][2]) THEN "ValueError" ELSE ""

\* mutant: three bid levels are support enough
finds_strong_support_by_depth(b, threshold_multiplier) ==
    Returned(Len(b.bids) >= 3)

finds_strong_support(b, threshold_multiplier) ==
    LET top == get_top_n_levels(b, 10)
        top_bids == top.bids
        bid_quantities == LevelQuantityValues(top_bids)
        avg_quantity == Rat(SumSeq(bid_quantities), Len(bid_quantities))
    IN  IF top.raised # "" THEN Raised(top.raised)
        ELSE IF Len(top_bids) < 3 THEN Returned(FALSE)
        ELSE IF LevelQuantityError(top_bids) # "" THEN Raised(LevelQuantityError(top_bids))
        ELSE Returned(\E i \in 1..Len(bid_quantities) :
                RLt(RMul(RInt(threshold_multiplier), avg_quantity), RInt(bid_quantities[i])))

\* threshold_ratio is the rational ratio_n / ratio_d
detects_ask_liquidity_vacuum(b, ratio_n, ratio_d) ==
    LET top == get_top_n_levels(b, 5)
        total_bid_quantity == SumSeq(LevelQuantityValues(top.bids))
        total_ask_quantity == SumSeq(LevelQuantityValues(top.asks))
    IN  IF top.raised # "" THEN Raised(top.raised)
        ELSE IF top.bids = << >> \/ top.asks = << >> THEN Returned(FALSE)
        ELSE IF LevelQuantityError(top.bids) # "" THEN Raised(LevelQuantityError(top.bids))
        ELSE IF LevelQuantityError(top.asks) # "" THEN Raised(LevelQuantityError(top.asks))
        ELSE Returned(RLt(RInt(total_ask_quantity),
                          RMul(Rat(ratio_n, ratio_d), RInt(total_bid_quantity))))

\* mutant: the ask total is added where it is subtracted
NormalizedImbalanceOfSum(total_bid_quantity, total_ask_quantity) ==
    Rat(total_bid_quantity + total_ask_quantity, total_bid_quantity + total_ask_quantity)

\* (total_bid_quantity - total_ask_quantity) / total_quantity, for a total that is not 0
NormalizedImbalance(total_bid_quantity, total_ask_quantity) ==
    Rat(total_bid_quantity - total_ask_quantity, total_bid_quantity + total_ask_quantity)

\* the value is a rational
calculates_bid_ask_imbalance(b) ==
    LET top == get_top_n_levels(b, 10)
        total_bid_quantity == SumSeq(LevelQuantityValues(top.bids))
        total_ask_quantity == SumSeq(LevelQuantityValues(top.asks))
        total_quantity == total_bid_quantity + total_ask_quantity
    IN  IF top.raised # "" THEN Raised(top.raised)
        ELSE IF top.bids = << >> \/ top.asks = << >> THEN Returned(RInt(0))
        ELSE IF LevelQuantityError(top.bids) # "" THEN Raised(LevelQuantityError(top.bids))
        ELSE IF LevelQuantityError(top.asks) # "" THEN Raised(LevelQuantityError(top.asks))
        ELSE IF total_quantity = 0 THEN Returned(RInt(0))
        ELSE Returned(NormalizedImbalance(total_bid_quantity, total_ask_quantity))

\* d.update(other): the items of other set one by one, from item i on
RECURSIVE DictUpdate(_, _, _)
DictUpdate(d, other, i) ==
    IF i > Len(other) THEN d
    ELSE DictUpdate(DictSet(d, other[i][1], other[i][2]), other, i + 1)

\* max(all_levels.items(), key=lambda x: float(x[1])): the first item that no
\* other exceeds
MaxQuantityItem(all_levels) ==
    all_levels[CHOOSE i \in 1..Len(all_levels) :
        /\ \A j \in 1..Len(all_levels) :
                FloatOf[all_levels[j][2]] <= FloatOf[all_levels[i][2]]
        /\ \A j \in 1..(i - 1) :
                FloatOf[all_levels[j][2]] < FloatOf[all_levels[i][2]]]

\* the value is <<is_cluster, price_level>>
finds_price_cluster(b) ==
    LET top == get_top_n_levels(b, 20)
        all_levels == DictUpdate(DictUpdate(<< >>, top.bids, 1), top.asks, 1)
        max_qty_price == MaxQuantityItem(all_levels)[1]
        max_qty == FloatOf[DictGet(all_levels, max_qty_price)]
        avg_qty == Rat(SumSeq(LevelQuantityValues(all_levels)), Len(all_levels))
        is_cluster == RLt(RMul(RInt(5), avg_qty), RInt(max_qty))
    IN  IF top.raised # "" THEN Raised(top.raised)
        ELSE IF Len(all_levels) < 5 THEN Returned(<<FALSE, 0>>)
        ELSE IF LevelQuantityError(all_levels) # ""
        THEN Raised(LevelQuantityError(all_levels))
        ELSE Returned(<<is_cluster, FloatOf[max_qty_price]>>)

(***************************************************************************)
(* TapeFilter: each query takes one recent_trades snapshot.                *)
(***************************************************************************)
\* the exception float(trade.get('quantity', 0)) raises, "" if none
VolumeError(trade) ==
    IF "quantity" \notin DOMAIN trade THEN ""
    ELSE IF trade["quantity"] = None THEN "TypeError"
    ELSE IF ~IsNumeric(trade["quantity"][1]) THEN "ValueError"
    ELSE ""

\* float(trade.get('quantity', 0)) where it does not raise
Volume(trade) ==
    IF "quantity" \notin DOMAIN trade THEN 0 ELSE FloatOf[trade["quantity"][1]]

\* the exception the first trade with a bad quantity raises, "" if none
VolumesError(trades) ==
    IF \E i \in 1..Len(trades) : VolumeError(trades[i]) # ""
    THEN VolumeError(trades[CHOOSE i \in 1..Len(trades) :
            /\ VolumeError(trades[i]) # ""
            /\ \A j \in 1..(i - 1) : VolumeError(trades[j]) = ""])
    ELSE ""

Volumes(trades) == [i \in 1..Len(trades) |-> Volume(trades[i])]

\* trade.get('is_buyer_maker', False) is False
IsBuyer(trade) ==
    IF "is_buyer_maker" \notin DOMAIN trade THEN TRUE
    ELSE trade["is_buyer_maker"] = Some(FALSE)

detects_ignition_spike(b, threshold_multiplier) ==
    LET recent_trades == b.recent_trades
        sorted_volumes == Sorted(Volumes(recent_trades))
        avg_volume == Rat(SumSeq(SubSeq(sorted_volumes, 1, Len(sorted_volumes) - 1)),
                          Len(sorted_volumes) - 1)
        last5 == LastN(recent_trades, 5)
    IN  IF Len(recent_trades) < 10 THEN Returned(FALSE)
        ELSE IF VolumesError(recent_trades) # "" THEN Raised(VolumesError(recent_trades))
        ELSE Returned(\E i \in 1..Len(last5) :
                RLt(RMul(RInt(threshold_multiplier), avg_volume), RInt(Volume(last5[i]))))

detects_buyer_dominance(b, window_size) ==
    LET recent_trades == LastN(b.recent_trades, window_size)
        buyers == SelectSeq(recent_trades, IsBuyer)
        buy_volume == SumSeq(Volumes(buyers))
        total_volume == SumSeq(Volumes(recent_trades))
    IN  IF 2 * Len(recent_trades) < window_size THEN Returned(FALSE)
        ELSE IF VolumesError(recent_trades) # "" THEN Raised(VolumesError(recent_trades))
        ELSE IF total_volume > 0
             THEN Returned(RLt(Rat(7, 10), Rat(buy_volume, total_volume)))
             ELSE Returned(FALSE)

\* the volume of period i (from 0) of the window cut into periods chunks
PeriodVolume(recent_trades, periods, i) ==
    LET trades_per_period == Len(recent_trades) \div periods
        start_idx == i * trades_per_period
        end_idx == IF i < periods - 1 THEN (i + 1) * trades_per_period
                   ELSE Len(recent_trades)
    IN  SumSeq(Volumes(SubSeq(recent_trades, start_idx + 1, end_idx)))

is_accelerating_volume(b, periods) ==
    LET recent_trades == b.recent_trades
    IN  IF Len(recent_trades) < 10 * periods THEN Returned(FALSE)
        ELSE IF VolumesError(recent_trades) # "" THEN Raised(VolumesError(recent_trades))
        ELSE Returned(\A i \in 0..(periods - 2) :
                PeriodVolume(recent_trades, periods, i)
                    < PeriodVolume(recent_trades, periods, i + 1))

\* statistics.median of a non-empty list, as a rational
Median(xs) ==
    LET sorted == Sorted(xs)
        n == Len(sorted)
    IN  IF n % 2 = 1 THEN RInt(sorted[(n + 1) \div 2])
        ELSE Rat(sorted[n \div 2] + sorted[n \div 2 + 1], 2)

\* the scan of detects_large_trade_sequence from trade i on; last_direction
\* is None before the first large trade
RECURSIVE LargeTradeScan(_, _, _, _, _, _, _)
LargeTradeScan(trades, i, sequence_count, last_direction, min_sequence, threshold, median_size) ==
    IF i > Len(trades) THEN FALSE
    ELSE LET size == Volume(trades[i])
             is_buyer == IsBuyer(trades[i])
             large == RLt(RMul(RInt(threshold), median_size), RInt(size))
             count == IF ~large THEN 0
                      ELSE IF last_direction = None \/ last_direction = Some(is_buyer)
                           THEN sequence_count + 1
                           ELSE 1
             direction == IF large THEN Some(is_buyer) ELSE last_direction
         IN  IF count >= min_sequence THEN TRUE
             ELSE LargeTradeScan(trades, i + 1, count, direction,
                                 min_sequence, threshold, median_size)

detects_large_trade_sequence(b, min_sequence, threshold) ==
    LET recent_trades == b.recent_trades
    IN  IF Len(recent_trades) < 10 THEN Returned(FALSE)
        ELSE IF VolumesError(recent_trades) # "" THEN Raised(VolumesError(recent_trades))
        ELSE Returned(LargeTradeScan(LastN(recent_trades, 10), 1, 0, None,
                                     min_sequence, threshold,
                                     Median(Volumes(recent_trades))))

(***************************************************************************)
(* ZenMaster                                                               *)
(***************************************************************************)
InitialCapital == 1000     \* initial_capital: float = 1000.0
WallClockMillis == 1       \* int(time.time() * 1000): some positive reading

ZenInit ==
    [capital |-> RInt(InitialCapital), state |-> "WATCHING_IN_NIRVANA",
     entry_price |-> 0, position_size |-> RInt(0), entry_time |-> 0,
     trades_executed |-> 0, profitable_trades |-> 0, total_profit_loss |-> RInt(0)]

\* a thread that may run ZenMaster methods: its place and the locals alive there
\*   n           how many calls the thread has begun (the command thread's are bounded)
\*   price       current_price / entry_price / exit_price, whichever the method was passed
\*   signal      the conjunction of the analyzer results read so far
\*   pnl_amount  the local of exit_trade
ThreadLocal(pc, n, price, signal, pnl_amount) ==
    [pc |-> pc, n |-> n, price |-> price, signal |-> signal, pnl_amount |-> pnl_amount]
ThreadIdle == ThreadLocal("idle", 0, 0, FALSE, RInt(0))
Idle(th) == [ThreadIdle EXCEPT !.n = th.n]

\* results of one step of a ZenMaster method
StepTo(z, th, pc) == [zen |-> z, th |-> [th EXCEPT !.pc = pc], raised |-> ""]
StepDone(z, th) == [zen |-> z, th |-> Idle(th), raised |-> ""]
\* mutant: a method that raises falls back to WATCHING_IN_NIRVANA
StepRaiseWatching(z, th, e) ==
    [zen |-> [z EXCEPT !.state = "WATCHING_IN_NIRVANA"], th |-> Idle(th), raised |-> e]
StepRaise(z, th, e) == [zen |-> z, th |-> Idle(th), raised |-> e]

\* one analyzer call of look_for_the_nail / should_enter_now: r is its result,
\* met what it contributes to the conjunction
SignalStep(z, th, r, met, next_pc) ==
    IF r.raised # "" THEN StepRaise(z, th, r.raised)
    ELSE StepTo(z, [th EXCEPT !.signal = @ /\ met], next_pc)

\* pnl_percentage of should_exit_trade / exit_trade, for entry_price # 0
PnlPercentage(price, entry_price) ==
    RMul(Rat(price - entry_price, entry_price), RInt(100))

\* mutant: the whole capital is risked
PositionSizeOfCapital(capital, entry_price) == RDiv(capital, RInt(entry_price))

\* risk_amount / entry_price with risk_amount = capital * 0.02, for entry_price # 0
PositionSize(capital, entry_price) ==
    RDiv(RMul(capital, Rat(2, 100)), RInt(entry_price))

\* mutant: the profit is the whole proceeds of the sale
PnlAmountOfProceeds(position_size, exit_price, entry_price) ==
    RMul(position_size, RInt(exit_price))

\* pnl_amount of exit_trade
PnlAmount(position_size, exit_price, entry_price) ==
    RMul(position_size, RInt(exit_price - entry_price))

\* which branch of meditate's if / elif chain runs
Dispatch(state) ==
    CASE state = "WATCHING_IN_NIRVANA" -> "nail_support"
      [] state = "WAITING_FOR_ENTRY" -> "enter_imbalance"
      [] state = "IN_TRADE" -> "exit_pnl"
      [] state = "EXITING_TRADE" -> "xt_pnl"

\* One step of the ZenMaster method the thread th is inside, on the ZenMaster z
\* and the bridge b.  A step holds at most one read of the bridge (one
\* acquisition of its lock) or the reads and writes of one statement.
ZenStep(z, th, b) ==
    CASE th.pc = "dispatch" ->
            StepTo(z, [th EXCEPT !.signal = TRUE], Dispatch(z.state))
      \* look_for_the_nail
      [] th.pc = "nail_support" ->
            LET r == finds_strong_support(b, 20)
            IN  SignalStep(z, th, r, r.value, "nail_spike")
      [] th.pc = "nail_spike" ->
            LET r == detects_ignition_spike(b, 15)
            IN  SignalStep(z, th, r, r.value, "nail_dominance")
      [] th.pc = "nail_dominance" ->
            LET r == detects_buyer_dominance(b, 20)
            IN  SignalStep(z, th, r, r.value, "nail_vacuum")
      [] th.pc = "nail_vacuum" ->
            LET r == detects_ask_liquidity_vacuum(b, 1, 5)
            IN  IF r.raised # "" THEN StepRaise(z, th, r.raised)
                ELSE IF th.signal /\ r.value THEN StepTo(z, th, "nail_set")
                ELSE StepDone(z, th)
      [] th.pc = "nail_set" ->
            StepDone([z EXCEPT !.state = "WAITING_FOR_ENTRY"], th)
      \* should_enter_now
      [] th.pc = "enter_imbalance" ->
            LET r == calculates_bid_ask_imbalance(b)
            IN  SignalStep(z, th, r, r.raised = "" /\ RLt(Rat(7, 10), r.value), "enter_volume")
      [] th.pc = "enter_volume" ->
            LET r == is_accelerating_volume(b, 3)
            IN  SignalStep(z, th, r, r.value, "enter_sequence")
      [] th.pc = "enter_sequence" ->
            LET r == detects_large_trade_sequence(b, 3, 10)
            IN  IF r.raised # "" THEN StepRaise(z, th, r.raised)
                ELSE IF th.signal /\ r.value THEN StepTo(z, th, "et_size")
                ELSE StepDone(z, th)
      \* enter_trade(th.price)
      [] th.pc = "et_size" ->
            IF th.price = 0 THEN StepRaise(z, th, "ZeroDivisionError")
            ELSE StepTo([z EXCEPT !.position_size = PositionSize(z.capital, th.price)],
                        th, "et_price")
      [] th.pc = "et_price" ->
            StepTo([z EXCEPT !.entry_price = th.price, !.entry_time = WallClockMillis],
                   th, "et_state")
      [] th.pc = "et_state" ->
            StepDone([z EXCEPT !.state = "IN_TRADE"], th)
      \* should_exit_trade(th.price)
      [] th.pc = "exit_pnl" ->
            IF z.entry_price = 0 THEN StepRaise(z, th, "ZeroDivisionError")
            ELSE LET pnl_percentage == PnlPercentage(th.price, z.entry_price)
                 IN  IF RLe(RInt(6), pnl_percentage) \/ RLe(pnl_percentage, RInt(0 - 2))
                     THEN StepTo(z, th, "set_exiting")
                     ELSE StepTo(z, th, "exit_imbalance")
      [] th.pc = "exit_imbalance" ->
            LET r == calculates_bid_ask_imbalance(b)
            IN  IF r.raised # "" THEN StepRaise(z, th, r.raised)
                ELSE IF RLt(r.value, Rat(0 - 1, 2)) THEN StepTo(z, th, "set_exiting")
                ELSE StepDone(z, th)
      [] th.pc = "set_exiting" ->
            StepDone([z EXCEPT !.state = "EXITING_TRADE"], th)
      \* exit_trade(th.price)
      [] th.pc = "xt_pnl" ->
            IF z.entry_price = 0 THEN StepRaise(z, th, "ZeroDivisionError")
            ELSE StepTo(z, [th EXCEPT !.pnl_amount =
                                PnlAmount(z.position_size, th.price, z.entry_price)],
                        "xt_count")
      [] th.pc = "xt_count" ->
            StepTo([z EXCEPT !.trades_executed = @ + 1], th, "xt_total")
      [] th.pc = "xt_total" ->
            StepTo([z EXCEPT !.total_profit_loss = RAdd(@, th.pnl_amount)], th, "xt_profit")
      [] th.pc = "xt_profit" ->
            StepTo([z EXCEPT !.profitable_trades =
                        IF RLt(RInt(0), th.pnl_amount) THEN @ + 1 ELSE @],
                   th, "xt_capital")
      [] th.pc = "xt_capital" ->
            StepTo([z EXCEPT !.capital = RAdd(@, th.pnl_amount)], th, "xt_reset")
      [] th.pc = "xt_reset" ->
            StepTo([z EXCEPT !.entry_price = 0, !.position_size = RInt(0), !.entry_time = 0],
                   th, "xt_state")
      [] th.pc = "xt_state" ->
            StepDone([z EXCEPT !.state = "WATCHING_IN_NIRVANA"], th)

(***************************************************************************)
(* Inputs: trade dicts.                                                    *)
(***************************************************************************)
PriceInputs == {Some("100"), Some("106"), Some("abc"), None}
TimeInputs == {Some(t) : t \in 0..MaxTime} \cup {None}

\* dicts as on_trade_update builds them (every key present, None for a
\* field the event lacks) and dicts that lack the price or the time key
TradeInputs ==
    {[price |-> p, quantity |-> Some("1"), time |-> t,
      is_buyer_maker |-> Some(FALSE), trade_id |-> None] :
        p \in PriceInputs, t \in TimeInputs}
    \cup {[quantity |-> Some("1"), time |-> t] : t \in TimeInputs}
    \cup {[price |-> p, quantity |-> Some("1")] : p \in PriceInputs}

WellFormedTrade(trade) ==
    /\ "time" \in DOMAIN trade /\ trade["time"] # None
    /\ "price" \in DOMAIN trade /\ trade["price"] # None
    /\ IsNumeric(trade["price"][1])

(***************************************************************************)
(* SpecTape: a client calling the bridge's trade-side operations.          *)
(***************************************************************************)
\* the feed thread between callbacks; n counts the events delivered so far
FeedLocal(pc, n, processed_trade, local_asks, pre_bids) ==
    [pc |-> pc, n |-> n, processed_trade |-> processed_trade, asks |-> local_asks,
     pre_bids |-> pre_bids]
FeedIdle == FeedLocal("idle", 0, << >>, << >>, << >>)
NoCall == [op |-> "", arg |-> << >>, tick |-> 0]
Called(op, arg) == [op |-> op, arg |-> arg, tick |-> 1 - call.tick]

InitTape ==
    /\ bridge = BridgeInit
    /\ feed = FeedIdle
    /\ zen = ZenInit
    /\ poll = ThreadIdle
    /\ cmd = ThreadIdle
    /\ exc = ""
    /\ call = NoCall
    /\ ingested = << >>

AddTrade(trade) ==
    /\ Len(ingested) < MaxTapeCalls
    /\ LET r == add_trade(bridge, trade)
       IN  /\ bridge' = r.bridge
           /\ exc' = r.raised
    /\ call' = Called("add_trade", trade)
    /\ ingested' = Append(ingested, trade)
    /\ UNCHANGED threads

SetCurrentPrice(value) ==
    /\ bridge' = set_current_price(bridge, value)
    /\ exc' = ""
    /\ call' = Called("current_price", << >>)
    /\ UNCHANGED <<threads, ingested>>

SetLastTradeTime(value) ==
    /\ bridge' = set_last_trade_time(bridge, value)
    /\ exc' = ""
    /\ call' = Called("last_trade_time", << >>)
    /\ UNCHANGED <<threads, ingested>>

NextTape ==
    \/ \E trade \in TradeInputs : AddTrade(trade)
    \/ \E value \in {0, 100} : SetCurrentPrice(value)
    \/ \E value \in 0..MaxTime : SetLastTradeTime(value)

SpecTape == InitTape /\ [][NextTape]_vars

\* this step is a call of op
IsCall(op) == call'.tick # call.tick /\ call'.op = op

C8_IngestionNeverRaises ==
    call.op \in {"add_trade", "update_bids", "update_asks"} => exc = ""

(***************************************************************************)
(* Inputs: level dicts.                                                    *)
(***************************************************************************)
LevelPrices == {"99", "100"}
LevelQuantities == {"0.00", "5", "-1", "abc"}

\* every dict of at most two levels, in either insertion order
LevelInputs ==
    {<< >>}
    \cup {<<<<p, q>>>> : p \in LevelPrices, q \in LevelQuantities}
    \cup {d \in {<<<<p1, q1>>, <<p2, q2>>>> :
                    p1 \in LevelPrices, p2 \in LevelPrices,
                    q1 \in LevelQuantities, q2 \in LevelQuantities} :
            d[1][1] # d[2][1]}

\* the ask-side updates explored
AskLevelInputs ==
    {<<<<"101", "5">>>>, <<<<"101", "0">>>>, <<<<"101", "abc">>, <<"106", "2">>>>,
     <<<<"106", "-1">>, <<"101", "2">>>>}

\* whole books handed to update_order_book
BookInputs ==
    {<< >>, <<<<"100", "0">>>>, <<<<"99", "2">>, <<"100", "-1">>>>}

(***************************************************************************)
(* SpecBook: a client calling the bridge's order-book operations.          *)
(***************************************************************************)
UpdateBids(levels) ==
    /\ LET r == update_bids(bridge, levels)
       IN  /\ bridge' = r.bridge
           /\ exc' = r.raised
    /\ call' = Called("update_bids", levels)
    /\ UNCHANGED <<threads, ingested>>

UpdateAsks(levels) ==
    /\ LET r == update_asks(bridge, levels)
       IN  /\ bridge' = r.bridge
           /\ exc' = r.raised
    /\ call' = Called("update_asks", levels)
    /\ UNCHANGED <<threads, ingested>>

UpdateOrderBook(new_bids, new_asks) ==
    /\ bridge' = update_order_book(bridge, new_bids, new_asks)
    /\ exc' = ""
    /\ call' = Called("update_order_book", <<new_bids, new_asks>>)
    /\ UNCHANGED <<threads, ingested>>

NextBook ==
    \/ \E levels \in LevelInputs : UpdateBids(levels)
    \/ \E levels \in AskLevelInputs : UpdateAsks(levels)
    \/ \E new_bids \in BookInputs, new_asks \in BookInputs :
            UpdateOrderBook(new_bids, new_asks)

SpecBook == InitTape /\ [][NextBook]_vars

\* the items of a merge call that its loop reached before float() raised
RECURSIVE MergedItems(_, _)
MergedItems(levels, i) ==
    IF i > Len(levels) \/ ~IsNumeric(levels[i][2]) THEN << >>
    ELSE <<levels[i]>> \o MergedItems(levels, i + 1)

\* what one merge call must have done to one level map
MergeEffect(before, after, levels) ==
    LET merged == MergedItems(levels, 1)
    IN  /\ \A i \in 1..Len(merged) :
            LET price == merged[i][1]
                quantity == merged[i][2]
            IN  /\ FloatOf[quantity] = 0 => price \notin DictKeys(after)
                /\ FloatOf[quantity] # 0 =>
                    price \in DictKeys(after) /\ DictGet(after, price) = quantity
        /\ \A price \in (DictKeys(before) \cup DictKeys(after)) \ DictKeys(merged) :
            /\ price \in DictKeys(before) /\ price \in DictKeys(after)
            /\ DictGet(after, price) = DictGet(before, price)

(***************************************************************************)
(* C5: after update_bids (and likewise update_asks), every level the call  *)
(* merged with a quantity that parses to 0 is absent from the map, every   *)
(* level it merged with a nonzero quantity is present with exactly that    *)
(* quantity, and the levels the call did not merge, and the other map,     *)
(* are as they were.                                                       *)
(***************************************************************************)
C5_MergeSetsLevels ==
    [][/\ IsCall("update_bids") =>
            /\ MergeEffect(bridge.bids, bridge'.bids, call'.arg)
            /\ bridge'.asks = bridge.asks
       /\ IsCall("update_asks") =>
            /\ MergeEffect(bridge.asks, bridge'.asks, call'.arg)
            /\ bridge'.bids = bridge.bids]_vars

\* update_bids was called with "100" at quantity "0.00": "100" is gone and "99" is still at "5"
C5_Witness ==
    /\ call.op = "update_bids" /\ exc = ""
    /\ call.arg = <<<<"100", "0.00">>>>
    /\ DictKeys(bridge.bids) = {"99"}
    /\ DictGet(bridge.bids, "99") = "5"

(***************************************************************************)
(* C6: after any sequence of update_order_book, update_bids and            *)
(* update_asks calls, neither level map holds an entry whose quantity is   *)
(* exactly 0.                                                              *)
(***************************************************************************)
C6_NoZeroLevel ==
    \A book \in {bridge.bids, bridge.asks} :
        \A i \in 1..Len(book) :
            IsNumeric(book[i][2]) => FloatOf[book[i][2]] # 0

(***************************************************************************)
(* C7: an update carrying a negative quantity is rejected: after any       *)
(* sequence of merge and replace calls no level map holds a negative       *)
(* quantity.                                                               *)
(***************************************************************************)
C7_NoNegativeLevel ==
    \A book \in {bridge.bids, bridge.asks} :
        \A i \in 1..Len(book) :
            IsNumeric(book[i][2]) => FloatOf[book[i][2]] >= 0

(***************************************************************************)
(* SpecWindow: the feed pushes a long run of numbered trades through       *)
(* add_trade, past the capacity of the window.                             *)
(***************************************************************************)
\* the k-th trade of the run; every seventh has no price, so add_trade raises on it
NumberedTrade(k, maker) ==
    [price |-> IF k % 7 = 0 THEN None ELSE IF k % 2 = 0 THEN Some("100") ELSE Some("106"),
     quantity |-> Some("1"), time |-> Some(k),
     is_buyer_maker |-> Some(maker), trade_id |-> Some(k)]

WindowAddTrade(maker) ==
    /\ Len(ingested) < MaxIngest
    /\ LET trade == NumberedTrade(Len(ingested) + 1, maker)
           r == add_trade(bridge, trade)
       IN  /\ bridge' = r.bridge
           /\ exc' = r.raised
           /\ call' = Called("add_trade", trade)
           /\ ingested' = Append(ingested, trade)
    /\ UNCHANGED threads

\* the side of the trade is free for the first trade and for the one that fills the window
NextWindow ==
    \E maker \in BOOLEAN :
        /\ maker => Len(ingested) \in {0, WindowMaxLen}
        /\ WindowAddTrade(maker)

SpecWindow == InitTape /\ [][NextWindow]_vars

(***************************************************************************)
(* C9: the recent-trade window never holds more than 100 trades; after k   *)
(* add_trade calls it holds exactly the last min(k, 100) trades handed in, *)
(* in the order they were handed in.                                       *)
(***************************************************************************)
C9_WindowIsLastHundred ==
    LET k == Len(ingested)
        n == IF k < 100 THEN k ELSE 100
    IN  /\ Len(bridge.recent_trades) <= 100
        /\ bridge.recent_trades = SubSeq(ingested, k - n + 1, k)

\* the 101st trade has been ingested and the first one is gone
C9_Witness ==
    /\ Len(ingested) = 101
    /\ Len(bridge.recent_trades) = 100
    /\ bridge.recent_trades[1] = ingested[2]
    /\ bridge.recent_trades[100] = ingested[101]

(***************************************************************************)
(* The program: sdfs_wrapper's callbacks on the data-engine thread, the    *)
(* main loop calling meditate(), and the command server calling            *)
(* enter_trade / exit_trade.                                               *)
(***************************************************************************)
\* trade_data.get(key)
RawGet(data, key) == IF key \in DOMAIN data THEN Some(data[key]) ELSE None

\* processed_trade of on_trade_update
ProcessTrade(trade_data) ==
    [price |-> RawGet(trade_data, "p"), quantity |-> RawGet(trade_data, "q"),
     time |-> RawGet(trade_data, "T"), is_buyer_maker |-> RawGet(trade_data, "m"),
     trade_id |-> RawGet(trade_data, "t")]

\* {item[0]: item[1] for item in items}
RECURSIVE DictFromItems(_)
DictFromItems(items) ==
    IF items = << >> THEN << >>
    ELSE LET last == items[Len(items)]
         IN  DictSet(DictFromItems(SubSeq(items, 1, Len(items) - 1)), last[1], last[2])

\* depth_data.get(key, [])
DepthGet(depth_data, key) == IF key \in DOMAIN depth_data THEN depth_data[key] ELSE << >>

\* on_trade_update up to the return of add_trade
OnTradeUpdate(trade_data) ==
    /\ poll.pc # "stopped" /\ feed.pc = "idle" /\ feed.n < MaxFeedEvents
    /\ LET processed_trade == ProcessTrade(trade_data)
           r == add_trade(bridge, processed_trade)
       IN  /\ bridge' = r.bridge
           /\ IF r.raised # ""
              THEN /\ feed' = FeedLocal("idle", feed.n + 1, << >>, << >>, << >>)
                   /\ exc' = r.raised
              ELSE /\ feed' = FeedLocal("trade_set_price", feed.n + 1, processed_trade,
                                        << >>, << >>)
                   /\ exc' = exc
    /\ UNCHANGED <<zen, poll, cmd, call, ingested>>

\* on_trade_update: data_bridge.current_price = float(processed_trade['price'])
OnTradeSetPrice ==
    /\ poll.pc # "stopped" /\ feed.pc = "trade_set_price"
    /\ LET p == float(feed.processed_trade["price"])
       IN  /\ bridge' = IF p.raised = "" THEN set_current_price(bridge, p.value) ELSE bridge
           /\ exc' = p.raised
    /\ feed' = FeedLocal("idle", feed.n, << >>, << >>, << >>)
    /\ UNCHANGED <<zen, poll, cmd, call, ingested>>

\* on_depth_update up to the return of update_bids
OnDepthUpdate(depth_data) ==
    /\ poll.pc # "stopped" /\ feed.pc = "idle" /\ feed.n < MaxFeedEvents
    /\ LET new_bids == DictFromItems(DepthGet(depth_data, "b"))
           new_asks == DictFromItems(DepthGet(depth_data, "a"))
           r == IF new_bids # << >> THEN update_bids(bridge, new_bids)
                ELSE [bridge |-> bridge, raised |-> ""]
       IN  /\ bridge' = r.bridge
           /\ IF r.raised # "" \/ new_asks = << >>
              THEN /\ feed' = FeedLocal("idle", feed.n + 1, << >>, << >>, << >>)
                   /\ exc' = r.raised
              ELSE /\ feed' = FeedLocal("depth_asks", feed.n + 1, << >>, new_asks,
                                        bridge.bids)
                   /\ exc' = exc
    /\ UNCHANGED <<zen, poll, cmd, call, ingested>>

\* on_depth_update: data_bridge.update_asks(asks)
OnDepthAsks ==
    /\ poll.pc # "stopped" /\ feed.pc = "depth_asks"
    /\ LET r == update_asks(bridge, feed.asks)
       IN  /\ bridge' = r.bridge
           /\ exc' = r.raised
    /\ feed' = FeedLocal("idle", feed.n, << >>, << >>, << >>)
    /\ UNCHANGED <<zen, poll, cmd, call, ingested>>

\* mutant: meditate() does not test current_price
MeditateEntryUnguarded(th, current_price) ==
    ThreadLocal("dispatch", 0, current_price, FALSE, RInt(0))

\* meditate() with the current_price it read: 0 ends the call
MeditateEntry(th, current_price) ==
    IF current_price = 0 THEN th
    ELSE ThreadLocal("dispatch", 0, current_price, FALSE, RInt(0))

\* the main loop calls meditate(): current_price is read, and 0 ends the call.
\* With exclusive, the call waits for the command in progress.
MeditateBegin(exclusive) ==
    /\ poll.pc = "idle" /\ zen.trades_executed < MaxTrades
    /\ exclusive => cmd.pc = "idle"
    /\ poll' = MeditateEntry(poll, bridge.current_price)
    /\ UNCHANGED <<bridge, feed, zen, cmd, exc, call, ingested>>

\* the next step of meditate(); an exception ends the main loop, and with it the process
MeditateStep ==
    /\ poll.pc \notin {"idle", "stopped"}
    /\ LET r == ZenStep(zen, poll, bridge)
       IN  /\ zen' = r.zen
           /\ poll' = IF r.raised # "" THEN [r.th EXCEPT !.pc = "stopped"] ELSE r.th
           /\ exc' = IF r.th.pc = "idle" THEN r.raised ELSE exc
    /\ UNCHANGED <<bridge, feed, cmd, call, ingested>>

\* handle_command: a BUY or SELL command arrives and current_price is read.
\* With exclusive, the command waits for the meditate() in progress.
CommandBegin(action, exclusive) ==
    /\ poll.pc # "stopped" /\ cmd.pc = "idle" /\ cmd.n < MaxCommands
    /\ exclusive => poll.pc = "idle"
    /\ cmd' = ThreadLocal(IF action = "BUY" THEN "et_size" ELSE "xt_pnl",
                          cmd.n + 1, bridge.current_price, FALSE, RInt(0))
    /\ UNCHANGED <<bridge, feed, zen, poll, exc, call, ingested>>

\* the next step of enter_trade / exit_trade on the command thread; an
\* exception ends the request, not the thread
CommandStep ==
    /\ poll.pc # "stopped" /\ cmd.pc # "idle"
    /\ LET r == ZenStep(zen, cmd, bridge)
       IN  /\ zen' = r.zen
           /\ cmd' = r.th
           /\ exc' = IF r.th.pc = "idle" THEN r.raised ELSE exc
    /\ UNCHANGED <<bridge, feed, poll, call, ingested>>

(***************************************************************************)
(* Inputs: the events the feed delivers.                                   *)
(***************************************************************************)
\* the feed before the ZenMaster is constructed: thirty buyer-side trades
\* whose volume accelerates and ends in three large ones, and a book with a
\* negative bid level
SeedTrade(k) ==
    [p |-> "100",
     q |-> IF k = 20 THEN "2" ELSE IF k \in {28, 29} THEN "100"
           ELSE IF k = 30 THEN "1000" ELSE "1",
     T |-> k, m |-> FALSE, t |-> k]

SeedDepth ==
    [b |-> <<<<"100", "1">>, <<"99", "1">>, <<"98", "-5">>>>, a |-> <<<<"101", "-1">>>>]

\* the bridge after on_trade_update(SeedTrade(1)) ... on_trade_update(SeedTrade(30))
\* and on_depth_update(SeedDepth): every trade is newer than the one before
\* it, so each is appended and sets the price and the time
SeedBridge ==
    LET bid == update_bids(BridgeInit, DictFromItems(SeedDepth["b"])).bridge
        book == update_asks(bid, DictFromItems(SeedDepth["a"])).bridge
    IN  [book EXCEPT !.recent_trades = [k \in 1..30 |-> ProcessTrade(SeedTrade(k))],
                     !.current_price = FloatOf[SeedTrade(30)["p"]],
                     !.last_trade_time = SeedTrade(30)["T"]]

\* trade events: a newer trade 6% up, a stale trade, a newer trade without a price
TradeEvents ==
    {[p |-> "106", q |-> "1", T |-> 31, m |-> FALSE, t |-> 31],
     [p |-> "98", q |-> "1", T |-> 1, m |-> TRUE, t |-> 1],
     [q |-> "1", T |-> 32, m |-> FALSE, t |-> 32]}

\* depth events: buying pressure on both sides of the book, a bid-side update
\* only, selling pressure on the ask side only
DepthEvents ==
    {[b |-> <<<<"98", "5">>>>, a |-> <<<<"101", "1">>>>],
     [b |-> <<<<"98", "-5">>>>],
     [a |-> <<<<"101", "1000">>>>]}

\* main() has constructed the ZenMaster and started the command server; the
\* feed has been running since before, or has delivered nothing yet
Init ==
    /\ bridge \in {BridgeInit, SeedBridge}
    /\ feed = FeedIdle
    /\ zen = ZenInit
    /\ poll = ThreadIdle
    /\ cmd = ThreadIdle
    /\ exc = ""
    /\ call = NoCall
    /\ ingested = << >>

Program(exclusive) ==
    \/ \E trade_data \in TradeEvents : OnTradeUpdate(trade_data)
    \/ OnTradeSetPrice
    \/ \E depth_data \in DepthEvents : OnDepthUpdate(depth_data)
    \/ OnDepthAsks
    \/ MeditateBegin(exclusive)
    \/ MeditateStep
    \/ \E action \in {"BUY", "SELL"} : CommandBegin(action, exclusive)
    \/ CommandStep

\* the program as written: nothing orders meditate() and the commands
Next == Program(FALSE)
Spec == Init /\ [][Next]_vars

\* the program with each meditate() and each command run while the other thread is idle
NextExclusive == Program(TRUE)
SpecExclusive == Init /\ [][NextExclusive]_vars

(***************************************************************************)
(* C1: a reader calling get_top_n_levels while one depth event that        *)
(* carries both bid and ask updates is being delivered sees none or all of *)
(* that event's updates, never the new bids with the pre-event asks.       *)
(***************************************************************************)
\* the thread's next step is an analyzer's call of get_top_n_levels
ReadsTopLevels(th) ==
    th.pc \in {"nail_support", "nail_vacuum", "enter_imbalance", "exit_imbalance"}

C1_DepthEventAtomic ==
    (feed.pc = "depth_asks" /\ ReadsTopLevels(poll)) =>
        LET seen == get_top_n_levels(bridge, 10)
            none == get_top_n_levels([bridge EXCEPT !.bids = feed.pre_bids], 10)
            all == get_top_n_levels(update_asks(bridge, feed.asks).bridge, 10)
        IN  seen \in {none, all}

(***************************************************************************)
(* C4: current_price changes only in the step that accepts a trade's       *)
(* timestamp: whenever current_price changes, last_trade_time advances in  *)
(* the same step, so a trade older than last_trade_time leaves the price   *)
(* alone and the price is always that of the trade stamped                 *)
(* last_trade_time.                                                        *)
(***************************************************************************)
C4_PriceChangesWithTimestamp ==
    [][bridge'.current_price # bridge.current_price =>
        bridge'.last_trade_time > bridge.last_trade_time]_vars

(***************************************************************************)
(* C2: meditate() on the main thread and enter_trade / exit_trade on the   *)
(* command thread exclude each other, so between calls the state, the      *)
(* position and the ledger are what some serial order of the calls leaves: *)
(* a position is held exactly in IN_TRADE and EXITING_TRADE, and the       *)
(* capital is the initial capital plus the total profit and loss.          *)
(***************************************************************************)
C2_SerialOutcome ==
    (poll.pc = "idle" /\ cmd.pc = "idle") =>
        /\ zen.state \in {"IN_TRADE", "EXITING_TRADE"} <=> zen.entry_price # 0
        /\ zen.capital = RAdd(RInt(InitialCapital), zen.total_profit_loss)

(***************************************************************************)
(* C10: the initial state is WATCHING_IN_NIRVANA, every change of state    *)
(* made by meditate() is one of WATCHING_IN_NIRVANA -> WAITING_FOR_ENTRY,  *)
(* WAITING_FOR_ENTRY -> IN_TRADE, IN_TRADE -> EXITING_TRADE,               *)
(* EXITING_TRADE -> WATCHING_IN_NIRVANA, and one call of meditate() makes  *)
(* at most one change: the call ends with the change.                      *)
(***************************************************************************)
MeditateTransitions ==
    {<<"WATCHING_IN_NIRVANA", "WAITING_FOR_ENTRY">>, <<"WAITING_FOR_ENTRY", "IN_TRADE">>,
     <<"IN_TRADE", "EXITING_TRADE">>, <<"EXITING_TRADE", "WATCHING_IN_NIRVANA">>}

C10_MeditateTransitions ==
    /\ zen.state = "WATCHING_IN_NIRVANA"
    /\ [][(poll' # poll /\ zen'.state # zen.state) =>
            /\ <<zen.state, zen'.state>> \in MeditateTransitions
            /\ poll'.pc = "idle"]_vars

(***************************************************************************)
(* SpecQuery: a client merging levels into the book and calling            *)
(* get_top_n_levels and the OrderBookManager queries.  A query leaves its  *)
(* arguments and its return value in call.arg.                             *)
(***************************************************************************)
MaxTopN == 2     \* get_top_n_levels(n) is called with n in 1..MaxTopN

QueryBidInputs ==
    {<<<<"100", "1">>>>, <<<<"100", "50">>>>, <<<<"99", "1">>>>,
     <<<<"98", "50">>>>, <<<<"98", "-5">>>>}
QueryAskInputs == {<<<<"101", "1">>>>, <<<<"101", "5">>>>, <<<<"1000", "5">>>>}
QueryBookInputs == {<< >>, <<<<"100", "0">>>>, <<<<"99", "1">>, <<"100", "5">>>>}
ThresholdInputs == {1, 20}

GetTopNLevels(n) ==
    /\ LET r == get_top_n_levels(bridge, n)
       IN  /\ call' = Called("get_top_n_levels", <<n, r.bids, r.asks>>)
           /\ exc' = r.raised
    /\ UNCHANGED <<bridge, threads, ingested>>

FindsStrongSupport(threshold_multiplier) ==
    /\ LET r == finds_strong_support(bridge, threshold_multiplier)
       IN  /\ call' = Called("finds_strong_support", <<threshold_multiplier, r.value>>)
           /\ exc' = r.raised
    /\ UNCHANGED <<bridge, threads, ingested>>

CalculatesBidAskImbalance ==
    /\ LET r == calculates_bid_ask_imbalance(bridge)
       IN  /\ call' = Called("calculates_bid_ask_imbalance", <<r.value>>)
           /\ exc' = r.raised
    /\ UNCHANGED <<bridge, threads, ingested>>

FindsPriceCluster ==
    /\ LET r == finds_price_cluster(bridge)
       IN  /\ call' = Called("finds_price_cluster", IF r.raised = "" THEN r.value ELSE << >>)
           /\ exc' = r.raised
    /\ UNCHANGED <<bridge, threads, ingested>>

NextQuery ==
    \/ \E levels \in QueryBidInputs : UpdateBids(levels)
    \/ \E levels \in QueryAskInputs : UpdateAsks(levels)
    \/ \E new_bids \in QueryBookInputs, new_asks \in QueryBookInputs :
            UpdateOrderBook(new_bids, new_asks)
    \/ \E n \in 1..MaxTopN : GetTopNLevels(n)
    \/ \E threshold_multiplier \in ThresholdInputs : FindsStrongSupport(threshold_multiplier)
    \/ CalculatesBidAskImbalance
    \/ FindsPriceCluster

SpecQuery == InitTape /\ [][NextQuery]_vars

\* the quantities of a level map as numbers, and their sum
QuantityOf(levels, i) == FloatOf[levels[i][2]]
RECURSIVE TotalQuantity(_)
TotalQuantity(levels) ==
    IF levels = << >> THEN 0
    ELSE FloatOf[Head(levels)[2]] + TotalQuantity(Tail(levels))

\* the map holds exactly the levels of the sequence items
HoldsExactly(levels, items) ==
    /\ DictKeys(levels) = {items[i][1] : i \in 1..Len(items)}
    /\ \A i \in 1..Len(items) : DictGet(levels, items[i][1]) = items[i][2]

(***************************************************************************)
(* C18: finds_strong_support(20.0) returns True for the bid map            *)
(* {"100": "1", "99": "1", "98": "50"}; in general it returns True exactly *)
(* when the top 10 bids hold at least 3 levels and some level's quantity   *)
(* exceeds threshold_multiplier times the mean of those quantities.        *)
(***************************************************************************)
C18_StrongSupport ==
    (call.op = "finds_strong_support" /\ exc = "") =>
        LET threshold_multiplier == call.arg[1]
            result == call.arg[2]
            top_bids == get_top_n_levels(bridge, 10).bids
        IN  /\ (threshold_multiplier = 20
                /\ HoldsExactly(bridge.bids, <<<<"100", "1">>, <<"99", "1">>, <<"98", "50">>>>))
                    => result = TRUE
            /\ result <=>
                /\ Len(top_bids) >= 3
                /\ \E i \in 1..Len(top_bids) :
                    QuantityOf(top_bids, i) * Len(top_bids)
                        > threshold_multiplier * TotalQuantity(top_bids)

(***************************************************************************)
(* C19: get_top_n_levels(n) returns the bids in non-increasing and the     *)
(* asks in non-decreasing order of float(price), at most n of each, and    *)
(* they are the n best levels of the book as it is at the call.            *)
(***************************************************************************)
\* top holds the min(n, len) best levels of the map levels
BestLevels(top, levels, n, reverse) ==
    /\ Len(top) = IF Len(levels) < n THEN Len(levels) ELSE n
    /\ \A i \in 1..Len(top) :
        /\ top[i][1] \in DictKeys(levels) /\ DictGet(levels, top[i][1]) = top[i][2]
        /\ \A j \in 1..Len(top) : top[i][1] = top[j][1] => i = j
    /\ \A price \in DictKeys(levels) \ DictKeys(top) : \A i \in 1..Len(top) :
        IF reverse THEN FloatOf[price] <= FloatOf[top[i][1]]
        ELSE FloatOf[price] >= FloatOf[top[i][1]]

C19_TopLevelsSorted ==
    (call.op = "get_top_n_levels" /\ exc = "") =>
        LET n == call.arg[1]
            top_bids == call.arg[2]
            top_asks == call.arg[3]
        IN  /\ Len(top_bids) <= n /\ Len(top_asks) <= n
            /\ \A i \in 1..(Len(top_bids) - 1) :
                FloatOf[top_bids[i][1]] >= FloatOf[top_bids[i + 1][1]]
            /\ \A i \in 1..(Len(top_asks) - 1) :
                FloatOf[top_asks[i][1]] <= FloatOf[top_asks[i + 1][1]]
            /\ BestLevels(top_bids, bridge.bids, n, TRUE)
            /\ BestLevels(top_asks, bridge.asks, n, FALSE)

\* the two best of three bids and of two asks were returned, from maps that
\* hold "99" before "100" and "1000" before "101"
C19_Witness ==
    /\ call.op = "get_top_n_levels" /\ exc = "" /\ call.arg[1] = 2
    /\ Len(bridge.bids) = 3 /\ Len(bridge.asks) = 2
    /\ bridge.bids[1][1] = "99" /\ bridge.bids[2][1] = "100"
    /\ bridge.asks[1][1] = "1000"
    /\ call.arg[2][1][1] = "100" /\ call.arg[3][1][1] = "101"

(***************************************************************************)
(* C20: for a book whose quantities are all nonnegative,                   *)
(* calculates_bid_ask_imbalance returns a value in [-1, 1]; it returns 0   *)
(* when either side is empty or the combined top-10 quantity is 0, and     *)
(* (sum_bid - sum_ask) / (sum_bid + sum_ask) over the top 10 levels of     *)
(* each side otherwise.                                                    *)
(***************************************************************************)
NonNegativeLevels(levels) == \A i \in 1..Len(levels) : QuantityOf(levels, i) >= 0

C20_ImbalanceRange ==
    (/\ call.op = "calculates_bid_ask_imbalance" /\ exc = ""
     /\ NonNegativeLevels(bridge.bids) /\ NonNegativeLevels(bridge.asks)) =>
        LET value == call.arg[1]
            top == get_top_n_levels(bridge, 10)
            sum_bid == TotalQuantity(top.bids)
            sum_ask == TotalQuantity(top.asks)
        IN  /\ value[2] > 0
            /\ 0 - value[2] <= value[1] /\ value[1] <= value[2]
            /\ IF top.bids = << >> \/ top.asks = << >> \/ sum_bid + sum_ask = 0
               THEN value[1] = 0
               ELSE value[1] * (sum_bid + sum_ask) = value[2] * (sum_bid - sum_ask)

\* an imbalance strictly between 0 and 1 in size was returned for a book
\* with levels on both sides
C20_Witness ==
    /\ call.op = "calculates_bid_ask_imbalance" /\ exc = ""
    /\ NonNegativeLevels(bridge.bids) /\ NonNegativeLevels(bridge.asks)
    /\ Len(bridge.bids) >= 2 /\ bridge.asks # << >>
    /\ call.arg[1][1] < 0 /\ call.arg[1][2] > 1

(***************************************************************************)
(* SpecEngine: one caller at a time.  Each feed callback, each meditate()  *)
(* and each command runs from its first statement to its return before the *)
(* next call begins.  A call of a ZenMaster method leaves its price        *)
(* argument and the ZenMaster as it was at the call in call.arg.           *)
(***************************************************************************)
\* the whole of on_trade_update
on_trade_update(b, trade_data) ==
    LET processed_trade == ProcessTrade(trade_data)
        r == add_trade(b, processed_trade)
        p == float(processed_trade["price"])
    IN  IF r.raised # "" THEN r
        ELSE IF p.raised # "" THEN [bridge |-> r.bridge, raised |-> p.raised]
        ELSE [bridge |-> set_current_price(r.bridge, p.value), raised |-> ""]

\* the whole of on_depth_update
on_depth_update(b, depth_data) ==
    LET new_bids == DictFromItems(DepthGet(depth_data, "b"))
        new_asks == DictFromItems(DepthGet(depth_data, "a"))
        r == IF new_bids # << >> THEN update_bids(b, new_bids)
             ELSE [bridge |-> b, raised |-> ""]
    IN  IF r.raised # "" \/ new_asks = << >> THEN r
        ELSE update_asks(r.bridge, new_asks)

\* trade events: 6% up, a stale trade 2% down, 1% up, a trade priced 0
EngineTradeEvents ==
    {[p |-> "106", q |-> "1", T |-> 31, m |-> FALSE, t |-> 31],
     [p |-> "98", q |-> "1", T |-> 1, m |-> TRUE, t |-> 1],
     [p |-> "101", q |-> "1", T |-> 32, m |-> FALSE, t |-> 32],
     [p |-> "0", q |-> "1", T |-> 33, m |-> TRUE, t |-> 33]}

\* depth events: buying pressure, selling pressure
EngineDepthEvents ==
    {[b |-> <<<<"98", "5">>>>, a |-> <<<<"101", "1">>>>],
     [a |-> <<<<"101", "1000">>>>]}

NoCallInProgress == feed.pc = "idle" /\ poll.pc = "idle" /\ cmd.pc = "idle"

TradeUpdate(trade_data) ==
    /\ NoCallInProgress /\ feed.n < MaxFeedEvents
    /\ LET r == on_trade_update(bridge, trade_data)
       IN  bridge' = r.bridge
    /\ feed' = [feed EXCEPT !.n = @ + 1]
    /\ UNCHANGED <<zen, poll, cmd, exc, call, ingested>>

DepthUpdate(depth_data) ==
    /\ NoCallInProgress /\ feed.n < MaxFeedEvents
    /\ LET r == on_depth_update(bridge, depth_data)
       IN  bridge' = r.bridge
    /\ feed' = [feed EXCEPT !.n = @ + 1]
    /\ UNCHANGED <<zen, poll, cmd, exc, call, ingested>>

\* the main loop calls meditate()
EngineMeditateBegin ==
    /\ NoCallInProgress /\ zen.trades_executed < MaxTrades
    /\ poll' = MeditateEntry(poll, bridge.current_price)
    /\ call' = Called("meditate", <<bridge.current_price, zen>>)
    /\ exc' = ""
    /\ UNCHANGED <<bridge, feed, zen, cmd, ingested>>

\* handle_command calls enter_trade or exit_trade
EngineCommandBegin(action) ==
    /\ NoCallInProgress /\ cmd.n < MaxCommands
    /\ cmd' = ThreadLocal(IF action = "BUY" THEN "et_size" ELSE "xt_pnl",
                          cmd.n + 1, bridge.current_price, FALSE, RInt(0))
    /\ call' = Called(IF action = "BUY" THEN "enter_trade" ELSE "exit_trade",
                      <<bridge.current_price, zen>>)
    /\ exc' = ""
    /\ UNCHANGED <<bridge, feed, zen, poll, ingested>>

NextEngine ==
    \/ \E trade_data \in EngineTradeEvents : TradeUpdate(trade_data)
    \/ \E depth_data \in EngineDepthEvents : DepthUpdate(depth_data)
    \/ EngineMeditateBegin
    \/ MeditateStep
    \/ \E action \in {"BUY", "SELL"} : EngineCommandBegin(action)
    \/ CommandStep

SpecEngine == Init /\ [][NextEngine]_vars

\* this step is the return of the ZenMaster method op called last, and
\* before is the ZenMaster as it was at the call
Returns(op) ==
    /\ call.op = op /\ call' = call
    /\ \/ poll.pc \notin {"idle", "stopped"} /\ poll'.pc \in {"idle", "stopped"}
       \/ cmd.pc # "idle" /\ cmd'.pc = "idle"

(***************************************************************************)
(* C11: whenever current_price is 0, meditate() changes nothing: the       *)
(* state, the position fields and the ledger fields are after the call     *)
(* what they were before it, whatever the state, and the call has          *)
(* returned.                                                               *)
(***************************************************************************)
C11_ZeroPriceNoOp ==
    [][(IsCall("meditate") /\ call'.arg[1] = 0) =>
        (zen' = zen /\ poll'.pc = "idle")]_vars

\* meditate() has returned from a call that read the price 0 while a position
\* was held
C11_Witness ==
    /\ call.op = "meditate" /\ call.arg[1] = 0 /\ poll.pc = "idle"
    /\ zen.state \in {"IN_TRADE", "EXITING_TRADE"} /\ zen.entry_price # 0
    /\ zen = call.arg[2]

(***************************************************************************)
(* C12: between calls of meditate(), enter_trade() and exit_trade(), in    *)
(* every reachable state, entry_price, position_size and entry_time are    *)
(* nonzero only in IN_TRADE and EXITING_TRADE: in WATCHING_IN_NIRVANA and  *)
(* WAITING_FOR_ENTRY all three are zero.                                   *)
(***************************************************************************)
C12_PositionOnlyInTrade ==
    (poll.pc \in {"idle", "stopped"} /\ cmd.pc = "idle"
     /\ zen.state \in {"WATCHING_IN_NIRVANA", "WAITING_FOR_ENTRY"}) =>
        /\ zen.entry_price = 0
        /\ zen.position_size = RInt(0)
        /\ zen.entry_time = 0

(***************************************************************************)
(* C13: exit_trade at exit price p with an open position (entry price e,   *)
(* size s) adds 1 to trades_executed, adds 1 to profitable_trades exactly  *)
(* when s * (p - e) > 0, adds s * (p - e) to capital and to                *)
(* total_profit_loss, sets the position fields to zero and the state to    *)
(* WATCHING_IN_NIRVANA.  exit_trade runs on a SELL command and in          *)
(* meditate() when the state is EXITING_TRADE.                             *)
(***************************************************************************)
\* this step is the return of an exit_trade that found a position open
ExitTradeReturns ==
    /\ \/ Returns("exit_trade")
       \/ Returns("meditate") /\ call.arg[1] # 0 /\ call.arg[2].state = "EXITING_TRADE"
    /\ call.arg[2].entry_price # 0

C13_ExitAction ==
    [][ExitTradeReturns =>
        LET before == call.arg[2]
            p == call.arg[1]
            e == before.entry_price
            s == before.position_size
            \* s * (p - e) as a fraction
            pnl_n == s[1] * (p - e)
            pnl_d == s[2]
            Plus(x) == <<x[1] * pnl_d + pnl_n * x[2], x[2] * pnl_d>>
            Same(x, y) == x[1] * y[2] = y[1] * x[2]
        IN  /\ exc' = ""
            /\ zen'.trades_executed = before.trades_executed + 1
            /\ zen'.profitable_trades =
                    before.profitable_trades + (IF pnl_n > 0 THEN 1 ELSE 0)
            /\ Same(zen'.capital, Plus(before.capital))
            /\ Same(zen'.total_profit_loss, Plus(before.total_profit_loss))
            /\ zen'.entry_price = 0 /\ zen'.position_size = RInt(0) /\ zen'.entry_time = 0
            /\ zen'.state = "WATCHING_IN_NIRVANA"]_vars

\* meditate() in EXITING_TRADE has closed at 106 a position of 0.2 entered at
\* 100: one profitable trade, capital 1001.2
C13_Witness ==
    /\ call.op = "meditate" /\ call.arg[2].state = "EXITING_TRADE" /\ poll.pc = "idle"
    /\ call.arg[1] = 106 /\ call.arg[2].entry_price = 100
    /\ zen.trades_executed = 1 /\ zen.profitable_trades = 1
    /\ zen.capital = <<5006, 5>> /\ zen.total_profit_loss = <<6, 5>>
    /\ zen.state = "WATCHING_IN_NIRVANA" /\ zen.entry_price = 0

(***************************************************************************)
(* C14: in IN_TRADE, meditate() sets EXITING_TRADE exactly when            *)
(* pnl_percentage >= 6.0 or pnl_percentage <= -2.0 or the bid/ask          *)
(* imbalance is < -0.5, with pnl_percentage = (current_price -             *)
(* entry_price) / entry_price * 100 and both bounds inclusive; otherwise   *)
(* the state stays IN_TRADE; the position and the ledger are unchanged.    *)
(***************************************************************************)
\* calculates_bid_ask_imbalance() < -0.5 on the book b
ImbalanceBelowMinusHalf(b) ==
    LET top == get_top_n_levels(b, 10)
        sum_bid == TotalQuantity(top.bids)
        sum_ask == TotalQuantity(top.asks)
        total == sum_bid + sum_ask
    IN  /\ top.bids # << >> /\ top.asks # << >>
        /\ \/ total > 0 /\ 2 * (sum_bid - sum_ask) < 0 - total
           \/ total < 0 /\ 2 * (sum_bid - sum_ask) > 0 - total

C14_ExitDecision ==
    [][(Returns("meditate") /\ call.arg[1] # 0 /\ call.arg[2].state = "IN_TRADE"
            /\ call.arg[2].entry_price > 0) =>
        LET before == call.arg[2]
            current_price == call.arg[1]
            entry_price == before.entry_price
            exits == \/ (current_price - entry_price) * 100 >= 6 * entry_price
                     \/ (current_price - entry_price) * 100 <= (0 - 2) * entry_price
                     \/ ImbalanceBelowMinusHalf(bridge)
        IN  /\ exc' = ""
            /\ zen' = [before EXCEPT !.state = IF exits THEN "EXITING_TRADE"
                                               ELSE "IN_TRADE"]]_vars

\* meditate() has returned in EXITING_TRADE from a tick that read 106 with a
\* position entered at 100, over a book whose imbalance is not below -0.5
C14_Witness ==
    /\ call.op = "meditate" /\ poll.pc = "idle" /\ exc = ""
    /\ call.arg[1] = 106 /\ call.arg[2].state = "IN_TRADE"
    /\ call.arg[2].entry_price = 100
    /\ ~ImbalanceBelowMinusHalf(bridge)
    /\ zen.state = "EXITING_TRADE" /\ zen.entry_price = 100

(***************************************************************************)
(* C15: in WAITING_FOR_ENTRY, meditate() enters the trade exactly when the *)
(* imbalance is > 0.7 and is_accelerating_volume() and                     *)
(* detects_large_trade_sequence() hold; the entry sets entry_price to the  *)
(* current_price the tick read, position_size to capital * 0.02 /          *)
(* entry_price and the state to IN_TRADE; otherwise the state stays        *)
(* WAITING_FOR_ENTRY and no position is created.                           *)
(***************************************************************************)
\* calculates_bid_ask_imbalance() > 0.7 on the book b
ImbalanceAboveEntry(b) ==
    LET top == get_top_n_levels(b, 10)
        sum_bid == TotalQuantity(top.bids)
        sum_ask == TotalQuantity(top.asks)
        total == sum_bid + sum_ask
    IN  /\ top.bids # << >> /\ top.asks # << >>
        /\ \/ total > 0 /\ 10 * (sum_bid - sum_ask) > 7 * total
           \/ total < 0 /\ 10 * (sum_bid - sum_ask) < 7 * total

C15_EntryDecision ==
    [][(Returns("meditate") /\ call.arg[1] # 0
            /\ call.arg[2].state = "WAITING_FOR_ENTRY") =>
        LET before == call.arg[2]
            current_price == call.arg[1]
            enters == /\ ImbalanceAboveEntry(bridge)
                      /\ is_accelerating_volume(bridge, 3).value
                      /\ detects_large_trade_sequence(bridge, 3, 10).value
        IN  /\ exc' = ""
            /\ IF enters
               THEN /\ zen'.state = "IN_TRADE"
                    /\ zen'.entry_price = current_price
                    \* position_size * entry_price * 100 = capital * 2
                    /\ zen'.position_size[1] * current_price * 100 * before.capital[2]
                            = before.capital[1] * 2 * zen'.position_size[2]
                    /\ zen'.entry_time # 0
                    /\ zen'.capital = before.capital
                    /\ zen'.trades_executed = before.trades_executed
                    /\ zen'.profitable_trades = before.profitable_trades
                    /\ zen'.total_profit_loss = before.total_profit_loss
               ELSE zen' = before]_vars

\* meditate() has returned in IN_TRADE from a tick in WAITING_FOR_ENTRY that
\* read the price 100 with capital 1000: the position is 0.2
C15_Witness ==
    /\ call.op = "meditate" /\ poll.pc = "idle" /\ exc = ""
    /\ call.arg[1] = 100 /\ call.arg[2].state = "WAITING_FOR_ENTRY"
    /\ call.arg[2].entry_price = 0
    /\ zen.state = "IN_TRADE" /\ zen.entry_price = 100 /\ zen.position_size = <<1, 5>>

(***************************************************************************)
(* C16: whenever the state is EXITING_TRADE the next meditate() tick       *)
(* executes exit_trade unconditionally and leaves WATCHING_IN_NIRVANA with *)
(* the position cleared (so that every EXITING_TRADE state is followed by  *)
(* WATCHING_IN_NIRVANA once the main loop has ticked).                     *)
(***************************************************************************)
\* a meditate() that started in EXITING_TRADE returns: at once when it
\* read the price 0, after its last step otherwise
ExitingTickReturns ==
    \/ Returns("meditate") /\ call.arg[2].state = "EXITING_TRADE"
    \/ IsCall("meditate") /\ call'.arg[1] = 0 /\ zen.state = "EXITING_TRADE"

C16_ExitingTickExits ==
    [][ExitingTickReturns =>
        /\ zen'.state = "WATCHING_IN_NIRVANA"
        /\ zen'.entry_price = 0
        /\ zen'.position_size = RInt(0)
        /\ zen'.entry_time = 0]_vars

(***************************************************************************)
(* C17: meditate(), enter_trade(), exit_trade() and the analyzer queries   *)
(* they make are total: in every reachable state a call returns normally   *)
(* and raises nothing, also exit_trade() while no position is open         *)
(* (entry_price 0) and enter_trade() while current_price is 0.             *)
(***************************************************************************)
C17_NeverRaises ==
    call.op \in {"meditate", "enter_trade", "exit_trade"} => exc = ""

(***************************************************************************)
(* SpecSequence: a client of the tape on a quiet market.  The window holds *)
(* seven trades of volume 0; the client adds trades and asks               *)
(* detects_large_trade_sequence(), whose result it keeps in call.arg.      *)
(***************************************************************************)
MaxSequenceTrades == 4     \* add_trade calls after the seven quiet trades

\* a trade as on_trade_update hands it to add_trade
TapeTrade(quantity, maker, k) ==
    [price |-> Some("100"), quantity |-> Some(quantity), time |-> Some(k),
     is_buyer_maker |-> Some(maker), trade_id |-> Some(k)]

\* the bridge after add_trade of seven trades of volume 0, each newer than the last
QuietBridge ==
    [BridgeInit EXCEPT !.recent_trades = [k \in 1..7 |-> TapeTrade("0", FALSE, k)],
                       !.current_price = 100,
                       !.last_trade_time = 7]

\* a quiet trade, a buy of 5 and a sell of 5
SequenceTradeInputs == {<<"0", FALSE>>, <<"5", FALSE>>, <<"5", TRUE>>}

InitSequence ==
    /\ bridge = QuietBridge
    /\ feed = FeedIdle
    /\ zen = ZenInit
    /\ poll = ThreadIdle
    /\ cmd = ThreadIdle
    /\ exc = ""
    /\ call = NoCall
    /\ ingested = << >>

SequenceAddTrade(quantity, maker) ==
    /\ Len(ingested) < MaxSequenceTrades
    /\ LET trade == TapeTrade(quantity, maker, 8 + Len(ingested))
           r == add_trade(bridge, trade)
       IN  /\ bridge' = r.bridge
           /\ exc' = r.raised
           /\ call' = Called("add_trade", trade)
           /\ ingested' = Append(ingested, trade)
    /\ UNCHANGED threads

DetectsLargeTradeSequence ==
    /\ LET r == detects_large_trade_sequence(bridge, 3, 10)
       IN  /\ call' = Called("detects_large_trade_sequence", <<r.value>>)
           /\ exc' = r.raised
    /\ UNCHANGED <<bridge, threads, ingested>>

NextSequence ==
    \/ \E input \in SequenceTradeInputs : SequenceAddTrade(input[1], input[2])
    \/ DetectsLargeTradeSequence

SpecSequence == InitSequence /\ [][NextSequence]_vars

(***************************************************************************)
(* C21: detects_large_trade_sequence() returns False whenever the median   *)
(* volume over the whole window is 0, whatever the last 10 trades are.     *)
(***************************************************************************)
C21_ZeroMedianIsFalse ==
    (/\ call.op = "detects_large_trade_sequence"
     /\ Len(bridge.recent_trades) >= 10
     /\ 2 * Cardinality({i \in 1..Len(bridge.recent_trades) :
                            Volume(bridge.recent_trades[i]) = 0})
            > Len(bridge.recent_trades))
        => (exc = "" /\ call.arg[1] = FALSE)

(***************************************************************************)
(* C22: finds_price_cluster() returns (False, 0.0) whenever the union of   *)
(* the top-20 bid and ask levels has fewer than 5 distinct prices or its   *)
(* largest quantity does not exceed 5 times the mean quantity, and (True,  *)
(* price of the largest level) otherwise; the price returned is nonzero    *)
(* only with True.                                                         *)
(***************************************************************************)
C22_PriceCluster ==
    (call.op = "finds_price_cluster" /\ exc = "") =>
        LET prices == DictKeys(bridge.bids) \cup DictKeys(bridge.asks)
            quantity == [price \in prices |->
                            FloatOf[IF price \in DictKeys(bridge.asks)
                                    THEN DictGet(bridge.asks, price)
                                    ELSE DictGet(bridge.bids, price)]]
            count == Cardinality(prices)
            RECURSIVE Total(_)
            Total(ps) == IF ps = {} THEN 0
                         ELSE LET price == CHOOSE x \in ps : TRUE
                              IN  quantity[price] + Total(ps \ {price})
            cluster == /\ count >= 5
                       /\ \E price \in prices : quantity[price] * count > 5 * Total(prices)
        IN  IF cluster
            THEN /\ call.arg[1] = TRUE
                 /\ \E price \in prices :
                        /\ FloatOf[price] = call.arg[2]
                        /\ \A other \in prices : quantity[other] <= quantity[price]
            ELSE call.arg = <<FALSE, 0>>

(***************************************************************************)
(* C23: update_order_book(B, A) discards the book held before: whatever    *)
(* merges and replaces came first, get_top_n_levels(len(B)) called next    *)
(* returns as bids exactly the items of B in descending numeric price      *)
(* order, and no earlier level.                                            *)
(***************************************************************************)
C23_ReplaceDiscards ==
    [][(/\ call.op = "update_order_book"
        /\ IsCall("get_top_n_levels")
        /\ call'.arg[1] = Len(call.arg[1])) =>
        LET new_bids == call.arg[1]
            top_bids == call'.arg[2]
        IN  /\ exc' = ""
            /\ Len(top_bids) = Len(new_bids)
            /\ {top_bids[i] : i \in 1..Len(top_bids)}
                    = {new_bids[i] : i \in 1..Len(new_bids)}
            /\ \A i \in 1..(Len(top_bids) - 1) :
                    FloatOf[top_bids[i][1]] > FloatOf[top_bids[i + 1][1]]]_vars

\* after merges had put other bids into the book, the book was replaced by
\* {"99": "1", "100": "5"} and get_top_n_levels(2) returned "100" before "99"
C23_Witness ==
    /\ call.op = "get_top_n_levels" /\ exc = "" /\ call.arg[1] = 2
    /\ bridge.bids = <<<<"99", "1">>, <<"100", "5">>>>
    /\ call.arg[2] = <<<<"100", "5">>, <<"99", "1">>>>

(***************************************************************************)
(* C24: while every bid quantity in the book is nonnegative,               *)
(* finds_strong_support() with the default multiplier 20 returns False (no *)
(* quantity among at most 10 exceeds 20 times their mean), so that no step *)
(* other than a command's takes the ZenMaster out of WATCHING_IN_NIRVANA   *)
(* or changes its position.                                                *)
(***************************************************************************)
C24_NoSupportNoEntry ==
    [][(/\ NonNegativeLevels(bridge.bids)
        /\ zen.state = "WATCHING_IN_NIRVANA"
        /\ cmd.pc = "idle" /\ cmd'.pc = "idle") =>
            /\ ~finds_strong_support(bridge, 20).value
            /\ poll.pc = "nail_support" => ~poll'.signal
            /\ zen' = zen]_vars

\* meditate() has returned in WATCHING_IN_NIRVANA on a book of three
\* nonnegative bids where the other three signals of look_for_the_nail hold
C24_Witness ==
    /\ call.op = "meditate" /\ poll.pc = "idle" /\ cmd.pc = "idle" /\ exc = ""
    /\ call.arg[1] # 0 /\ call.arg[2].state = "WATCHING_IN_NIRVANA"
    /\ zen.state = "WATCHING_IN_NIRVANA" /\ zen.entry_price = 0
    /\ Len(bridge.bids) >= 3 /\ NonNegativeLevels(bridge.bids)
    /\ detects_ignition_spike(bridge, 15).value
    /\ detects_buyer_dominance(bridge, 20).value
    /\ detects_ask_liquidity_vacuum(bridge, 1, 5).value

(***************************************************************************)
(* SpecOverlap: the main loop and a SELL command around one open position. *)
(* The ZenMaster has entered at 100 a position of 0.2, the price has risen *)
(* to 106 and meditate() has set EXITING_TRADE; the next tick and the      *)
(* command's exit_trade interleave as the code lets them.  The bids are    *)
(* nonnegative, so no later tick enters again: one entry has been made.    *)
(***************************************************************************)
ExitingBridge ==
    LET book == on_depth_update(SeedBridge,
                    [b |-> <<<<"98", "5">>>>, a |-> <<<<"101", "1">>>>]).bridge
    IN  on_trade_update(book,
            [p |-> "106", q |-> "1", T |-> 31, m |-> FALSE, t |-> 31]).bridge

ExitingZen ==
    [ZenInit EXCEPT !.state = "EXITING_TRADE",
                    !.entry_price = 100,
                    !.position_size = PositionSize(RInt(InitialCapital), 100),
                    !.entry_time = WallClockMillis]

InitOverlap ==
    /\ bridge = ExitingBridge
    /\ feed = FeedIdle
    /\ zen = ExitingZen
    /\ poll = ThreadIdle
    /\ cmd = ThreadIdle
    /\ exc = ""
    /\ call = NoCall
    /\ ingested = << >>

NextOverlap ==
    \/ MeditateBegin(FALSE)
    \/ MeditateStep
    \/ CommandBegin("SELL", FALSE)
    \/ CommandStep

SpecOverlap == InitOverlap /\ [][NextOverlap]_vars

(***************************************************************************)
(* C25: when a meditate() tick in EXITING_TRADE overlaps an exit_trade()   *)
(* on the command thread, the one open position is closed at most once:    *)
(* trades_executed does not exceed the number of entries made (one), and   *)
(* capital receives the position's pnl_amount (0.2 * 6 = 1.2) only once.   *)
(***************************************************************************)
C25_ClosedOnce ==
    /\ zen.trades_executed <= 1
    /\ zen.profitable_trades <= 1
    /\ zen.capital \in {RInt(InitialCapital), RAdd(RInt(InitialCapital), Rat(6, 5))}
    /\ zen.total_profit_loss \in {RInt(0), Rat(6, 5)}

(***************************************************************************)
(* The ledger in binary64.  A Python float is an IEEE 754 double, and      *)
(* exit_trade adds the same pnl_amount to two sums that start apart        *)
(* (capital at 1000.0, total_profit_loss at 0.0): whether they stay in     *)
(* step depends on how each addition rounds.  Here a double is [s, m, e]   *)
(* with value s * m * 2^e: s is 1 or -1 and m a natural of exactly 53      *)
(* bits, or zero with e = 0; every operation rounds to nearest, ties to    *)
(* even.  The exponent range is not modelled: the ledger stays far from    *)
(* overflow and from subnormals.  A natural is the sequence of its digits  *)
(* in base 2^15, lowest first, without leading zeros; << >> is 0.          *)
(***************************************************************************)
BigBase == 32768

BigTrim(a) ==
    IF \A i \in 1..Len(a) : a[i] = 0 THEN << >>
    ELSE SubSeq(a, 1, CHOOSE n \in 1..Len(a) :
                        a[n] # 0 /\ \A i \in (n + 1)..Len(a) : a[i] = 0)

BigDigit(a, i) == IF i \in 1..Len(a) THEN a[i] ELSE 0

\* a + b: the carry into digit i comes from a lower digit that overflows,
\* passed on by digits that are full
BigAdd(a, b) ==
    LET n == (IF Len(a) < Len(b) THEN Len(b) ELSE Len(a)) + 1
        sum(i) == BigDigit(a, i) + BigDigit(b, i)
        carry(i) == IF \E j \in 1..(i - 1) :
                            /\ sum(j) >= BigBase
                            /\ \A k \in (j + 1)..(i - 1) : sum(k) = BigBase - 1
                    THEN 1 ELSE 0
    IN  BigTrim([i \in 1..n |-> (sum(i) + carry(i)) % BigBase])

BigLess(a, b) ==
    \/ Len(a) < Len(b)
    \/ /\ Len(a) = Len(b)
       /\ \E i \in 1..Len(a) :
            /\ a[i] < b[i]
            /\ \A j \in (i + 1)..Len(a) : a[j] = b[j]

\* a - b for a >= b: the borrow from digit i is caused by a lower digit that
\* falls short, passed on by digits that are level
BigSub(a, b) ==
    LET diff(i) == a[i] - BigDigit(b, i)
        borrow(i) == IF \E j \in 1..(i - 1) :
                            /\ diff(j) < 0
                            /\ \A k \in (j + 1)..(i - 1) : diff(k) = 0
                     THEN 1 ELSE 0
    IN  BigTrim([i \in 1..Len(a) |-> (diff(i) - borrow(i) + BigBase) % BigBase])

\* a * d for one digit d
BigTimes(a, d) ==
    BigAdd([i \in 1..Len(a) |-> (a[i] * d) % BigBase],
           <<0>> \o [i \in 1..Len(a) |-> (a[i] * d) \div BigBase])

\* a * 2^k for a # 0
BigShiftLeft(a, k) == [i \in 1..(k \div 15) |-> 0] \o BigTimes(a, 2^(k % 15))

\* the double nearest to s * m * 2^e, ties to even; with sticky the exact
\* value lies above m * 2^e by less than 2^e
FloatRound(s, m, e, sticky) ==
    LET bits == 15 * (Len(m) - 1)
                + CHOOSE n \in 1..15 : 2^(n - 1) <= m[Len(m)] /\ m[Len(m)] < 2^n
        bit(a, i) == (BigDigit(a, (i - 1) \div 15 + 1) \div 2^((i - 1) % 15)) % 2
        shift_right(a, k) ==
            LET q == k \div 15
                r == k % 15
            IN  BigTrim([i \in 1..(Len(a) - q) |->
                    (a[i + q] \div 2^r) + (BigDigit(a, i + q + 1) % 2^r) * 2^(15 - r)])
    IN  IF m = << >> THEN [s |-> 1, m |-> << >>, e |-> 0]
        ELSE IF bits <= 53
        THEN [s |-> s, m |-> BigShiftLeft(m, 53 - bits), e |-> e - (53 - bits)]
        ELSE LET k == bits - 53
                 kept == shift_right(m, k)
                 below == sticky \/ \E i \in 1..(k - 1) : bit(m, i) = 1
                 up == bit(m, k) = 1 /\ (below \/ bit(kept, 1) = 1)
                 rounded == IF up THEN BigAdd(kept, <<1>>) ELSE kept
             IN  IF Len(rounded) = 4 /\ rounded[4] >= 2^8
                 THEN [s |-> s, m |-> shift_right(rounded, 1), e |-> e + k + 1]
                 ELSE [s |-> s, m |-> rounded, e |-> e + k]

\* float(n) for an int n below BigBase in size
FloatOfInt(n) ==
    IF n = 0 THEN FloatRound(1, << >>, 0, FALSE)
    ELSE FloatRound(IF n < 0 THEN 0 - 1 ELSE 1, <<IF n < 0 THEN 0 - n ELSE n>>, 0, FALSE)

FloatMul(x, y) ==
    LET RECURSIVE mul(_, _)
        mul(a, b) == IF b = << >> THEN << >>
                     ELSE BigAdd(BigTimes(a, b[1]), <<0>> \o mul(a, Tail(b)))
    IN  IF x.m = << >> \/ y.m = << >> THEN FloatRound(1, << >>, 0, FALSE)
        ELSE FloatRound(x.s * y.s, mul(x.m, y.m), x.e + y.e, FALSE)

\* x / y for y # 0: 62 more bits of x over 7 more bits of y, which fill the
\* highest digit of the divisor.  divmod is <<a div b, a mod b>> by long
\* division from digit i of a upwards: the digits above the length of b are
\* the first remainder, and a digit of the quotient is at most three below
\* its estimate from the two highest digits of the remainder
FloatDiv(x, y) ==
    LET RECURSIVE divmod(_, _, _)
        divmod(a, b, i) ==
            IF i > Len(a) - Len(b) + 1 THEN <<<< >>, SubSeq(a, i, Len(a))>>
            ELSE LET higher == divmod(a, b, i + 1)
                     rem == BigTrim(<<a[i]>> \o higher[2])
                     top == BigDigit(rem, Len(b) + 1) * BigBase + BigDigit(rem, Len(b))
                     estimate == top \div b[Len(b)]
                     high == IF estimate >= BigBase THEN BigBase - 1 ELSE estimate
                     digit == CHOOSE d \in (IF high < 3 THEN 0 ELSE high - 3)..high :
                                /\ ~BigLess(rem, BigTimes(b, d))
                                /\ BigLess(rem, BigTimes(b, d + 1))
                 IN  IF higher[2] = << >> /\ a[i] = 0
                     THEN <<BigTrim(<<0>> \o higher[1]), << >>>>
                     ELSE <<BigTrim(<<digit>> \o higher[1]),
                            BigSub(rem, BigTimes(b, digit))>>
        qr == divmod(BigShiftLeft(x.m, 62), BigShiftLeft(y.m, 7), 1)
    IN  IF x.m = << >> THEN x
        ELSE FloatRound(x.s * y.s, qr[1], x.e - y.e - 55, qr[2] # << >>)

FloatAdd(x, y) ==
    IF x.m = << >> THEN y
    ELSE IF y.m = << >> THEN x
    ELSE LET e == IF x.e < y.e THEN x.e ELSE y.e
             a == BigShiftLeft(x.m, x.e - e)
             b == BigShiftLeft(y.m, y.e - e)
         IN  IF x.s = y.s THEN FloatRound(x.s, BigAdd(a, b), e, FALSE)
             ELSE IF BigLess(a, b) THEN FloatRound(y.s, BigSub(b, a), e, FALSE)
             ELSE FloatRound(x.s, BigSub(a, b), e, FALSE)

\* enter_trade(entry_price) as one call, on a ledger of doubles
enter_trade(z, entry_price) ==
    LET risk_amount == FloatMul(z.capital, FloatDiv(FloatOfInt(2), FloatOfInt(100)))
    IN  [z EXCEPT !.position_size = FloatDiv(risk_amount, entry_price),
                  !.entry_price = entry_price,
                  !.entry_time = WallClockMillis,
                  !.state = "IN_TRADE"]

\* exit_trade(exit_price) as one call, on a ledger of doubles: the division of
\* pnl_percentage raises before anything is written when no position is open
exit_trade(z, exit_price) ==
    LET pnl_amount == FloatMul(z.position_size,
                               FloatAdd(exit_price, [z.entry_price EXCEPT !.s = 0 - @]))
    IN  IF z.entry_price.m = << >> THEN Raised("ZeroDivisionError")
        ELSE Returned(
            [z EXCEPT !.trades_executed = @ + 1,
                      !.total_profit_loss = FloatAdd(@, pnl_amount),
                      !.profitable_trades =
                            IF pnl_amount.s = 1 /\ pnl_amount.m # << >> THEN @ + 1 ELSE @,
                      !.capital = FloatAdd(@, pnl_amount),
                      !.entry_price = FloatOfInt(0),
                      !.position_size = FloatOfInt(0),
                      !.entry_time = 0,
                      !.state = "WATCHING_IN_NIRVANA"])

(***************************************************************************)
(* SpecLedger: enter_trade and exit_trade called one at a time on a fresh  *)
(* ZenMaster, as BUY and SELL commands call them, at prices the feed has   *)
(* stored; cmd.n counts the calls.                                         *)
(***************************************************************************)
MaxLedgerCalls == 4
LedgerPrices == {98, 100, 106}

InitLedger ==
    /\ bridge = BridgeInit
    /\ feed = FeedIdle
    /\ zen = [ZenInit EXCEPT !.capital = FloatOfInt(InitialCapital),
                             !.entry_price = FloatOfInt(0),
                             !.position_size = FloatOfInt(0),
                             !.total_profit_loss = FloatOfInt(0)]
    /\ poll = ThreadIdle
    /\ cmd = ThreadIdle
    /\ exc = ""
    /\ call = NoCall
    /\ ingested = << >>

LedgerEnterTrade(entry_price) ==
    /\ cmd.n < MaxLedgerCalls
    /\ zen' = enter_trade(zen, FloatOfInt(entry_price))
    /\ cmd' = [cmd EXCEPT !.n = @ + 1]
    /\ exc' = ""
    /\ call' = Called("enter_trade", entry_price)
    /\ UNCHANGED <<bridge, feed, poll, ingested>>

LedgerExitTrade(exit_price) ==
    /\ cmd.n < MaxLedgerCalls
    /\ LET r == exit_trade(zen, FloatOfInt(exit_price))
       IN  /\ zen' = IF r.raised = "" THEN r.value ELSE zen
           /\ exc' = r.raised
    /\ cmd' = [cmd EXCEPT !.n = @ + 1]
    /\ call' = Called("exit_trade", exit_price)
    /\ UNCHANGED <<bridge, feed, poll, ingested>>

NextLedger ==
    \/ \E entry_price \in LedgerPrices : LedgerEnterTrade(entry_price)
    \/ \E exit_price \in LedgerPrices : LedgerExitTrade(exit_price)

SpecLedger == InitLedger /\ [][NextLedger]_vars

(***************************************************************************)
(* C26: with enter_trade() and exit_trade() called one at a time, after    *)
(* every call capital equals initial capital plus total_profit_loss (the   *)
(* sum as the program would compute it) and profitable_trades is at most   *)
(* trades_executed; trades_executed and profitable_trades never decrease;  *)
(* and enter_trade() changes none of the four ledger fields.               *)
(***************************************************************************)
Ledger(z) == <<z.capital, z.trades_executed, z.profitable_trades, z.total_profit_loss>>

C26_LedgerBalances ==
    [][/\ zen'.capital = FloatAdd(FloatOfInt(InitialCapital), zen'.total_profit_loss)
       /\ zen'.profitable_trades <= zen'.trades_executed
       /\ zen'.trades_executed >= zen.trades_executed
       /\ zen'.profitable_trades >= zen.profitable_trades
       /\ IsCall("enter_trade") => Ledger(zen') = Ledger(zen)]_vars

(***************************************************************************)
(* C27: exit_trade() called from a SELL command while no position is open  *)
(* (entry_price 0: WATCHING_IN_NIRVANA or WAITING_FOR_ENTRY) leaves the    *)
(* state, the position fields and the four ledger fields as they were.     *)
(***************************************************************************)
C27_ExitWithoutPosition ==
    [][(Returns("exit_trade") /\ call.arg[2].entry_price = 0) =>
            zen' = call.arg[2]]_vars

\* a SELL command in WAITING_FOR_ENTRY has ended in ZeroDivisionError
C27_Witness ==
    /\ call.op = "exit_trade" /\ cmd.pc = "idle" /\ poll.pc = "idle"
    /\ call.arg[1] # 0 /\ call.arg[2].entry_price = 0
    /\ call.arg[2].state = "WAITING_FOR_ENTRY"
    /\ exc = "ZeroDivisionError"
    /\ zen = call.arg[2]

(***************************************************************************)
(* SpecLock: the lock of the bridge made explicit.  The feed thread calls  *)
(* add_trade, the main loop and the command thread read current_price;     *)
(* each operation is "with self._lock:" around its body: the thread waits  *)
(* for the lock, takes it, runs the body and releases the lock on the way  *)
(* out, also when the body raises.  A thread's pc is "idle", "acquire"     *)
(* (waiting for the lock) or "locked" (inside the with block).             *)
(***************************************************************************)
LockThreads == {"feed", "poll", "cmd"}

LockPc(thread) ==
    CASE thread = "feed" -> feed.pc
      [] thread = "poll" -> poll.pc
      [] thread = "cmd" -> cmd.pc

\* the thread moves to pc, the others stay
LockGoto(thread, pc) ==
    /\ feed' = IF thread = "feed" THEN [feed EXCEPT !.pc = pc] ELSE feed
    /\ poll' = IF thread = "poll" THEN [poll EXCEPT !.pc = pc] ELSE poll
    /\ cmd' = IF thread = "cmd" THEN [cmd EXCEPT !.pc = pc] ELSE cmd

\* mutant: the lock is released on return only, as acquire() ... release()
\* without try / finally would
LockOnExitLeaking(raised) == raised # ""

\* __exit__ of "with self._lock:" releases the lock, whatever the body did
LockOnExit(raised) == FALSE

\* a trade newer than all before it, and one whose time is None
LockTradeInputs ==
    {TapeTrade("1", FALSE, 1), [quantity |-> Some("1"), time |-> None]}

\* the feed calls add_trade(trade)
LockAddTrade(trade) ==
    /\ feed.pc = "idle" /\ Len(ingested) < MaxTapeCalls
    /\ feed' = [feed EXCEPT !.pc = "acquire", !.processed_trade = trade]
    /\ ingested' = Append(ingested, trade)
    /\ UNCHANGED <<bridge, zen, poll, cmd, exc, call>>

\* the main loop or the command thread reads current_price
LockCurrentPrice(thread) ==
    /\ thread \in {"poll", "cmd"} /\ LockPc(thread) = "idle"
    /\ LockGoto(thread, "acquire")
    /\ UNCHANGED <<bridge, zen, exc, call, ingested>>

\* self._lock.__enter__(): blocks while the lock is taken
LockAcquire(thread) ==
    /\ LockPc(thread) = "acquire" /\ ~bridge.locked
    /\ bridge' = [bridge EXCEPT !.locked = TRUE]
    /\ LockGoto(thread, "locked")
    /\ UNCHANGED <<zen, exc, call, ingested>>

\* the body of the with block and self._lock.__exit__()
LockRelease(thread) ==
    /\ LockPc(thread) = "locked"
    /\ LET r == IF thread = "feed" THEN add_trade(bridge, feed.processed_trade)
                ELSE [bridge |-> bridge, raised |-> ""]
       IN  /\ bridge' = [r.bridge EXCEPT !.locked = LockOnExit(r.raised)]
           /\ exc' = r.raised
    /\ LockGoto(thread, "idle")
    /\ call' = Called(IF thread = "feed" THEN "add_trade" ELSE "current_price", <<thread>>)
    /\ UNCHANGED <<zen, ingested>>

NextLock ==
    \/ \E trade \in LockTradeInputs : LockAddTrade(trade)
    \/ \E thread \in LockThreads :
        \/ LockCurrentPrice(thread)
        \/ LockAcquire(thread)
        \/ LockRelease(thread)

SpecLock == InitTape /\ [][NextLock]_vars

\* a thread inside the with block runs on; a waiting thread gets the lock if
\* it is free again and again (fair scheduling of the waiters)
SpecLockFair ==
    /\ SpecLock
    /\ \A thread \in LockThreads :
        SF_vars(LockAcquire(thread)) /\ WF_vars(LockRelease(thread))

(***************************************************************************)
(* C28: no bridge operation takes the lock while it holds it and every     *)
(* operation releases it on the way out, so at most one thread is inside a *)
(* bridge operation at a time and, under fair scheduling, every operation  *)
(* that was started completes.                                             *)
(***************************************************************************)
LockedThreads == {thread \in LockThreads : LockPc(thread) = "locked"}

====
